---------------------------- MODULE Spec2Model ----------------------------
(***************************************************************************)
(* Model of the BrainSAIT healthcare web-connector core:                   *)
(*   - HealthcareComplianceValidator (config-time and data-time rules),    *)
(*   - WebConnectorManager (registry, health-check scheduler, audit log),  *)
(*   - HealthcareConnector (status, metrics, sensitive-field encryption).  *)
(* JavaScript strings are sequences of one-character strings, so that      *)
(* toLowerCase, includes, startsWith and URL parsing are computed.         *)
(* Every await of the source is a step boundary of the task that runs it.  *)
(***************************************************************************)
EXTENDS Integers, Sequences, FiniteSets, TLC

VARIABLES
  connectors,    \* WebConnectorManager.connectors: Map in insertion order, <<[id, inst]>>
  healthChecks,  \* WebConnectorManager.healthChecks: id -> "none" | "healthy" | "unhealthy" | "error"
  objs,          \* the HealthcareConnector objects constructed so far, by allocation index
  tasks,         \* the asynchronous manager calls in flight, one record per slot
  tick,          \* the health-check timer callback in flight (startHealthCheckMonitoring)
  removed,       \* the Connector objects whose unregisterConnector has completed
  started,       \* number of manager calls started so far (bounds the run)
  pf             \* pure-function harness: inputs drawn in Init, result written by an action

vars == <<connectors, healthChecks, objs, tasks, tick, removed, started, pf>>

(***************************************************************************)
(* Bounds of the model.                                                    *)
(***************************************************************************)
NumIds == 2
MaxInst == 2
MaxTasks == 2
MaxOps == 3
MaxFields == 2
MaxViol == 3
MaxIv == 2
MaxCalls == 3
MaxLatency == 3

(***************************************************************************)
(* Strings.                                                                *)
(***************************************************************************)
UpperToLower ==
  [A |-> "a", B |-> "b", C |-> "c", D |-> "d", E |-> "e", F |-> "f", G |-> "g",
   H |-> "h", I |-> "i", J |-> "j", K |-> "k", L |-> "l", M |-> "m", N |-> "n",
   O |-> "o", P |-> "p", Q |-> "q", R |-> "r", S |-> "s", T |-> "t", U |-> "u",
   V |-> "v", W |-> "w", X |-> "x", Y |-> "y", Z |-> "z"]

\* String.prototype.toLowerCase
toLowerCase(s) ==
  [i \in 1..Len(s) |-> IF s[i] \in DOMAIN UpperToLower THEN UpperToLower[s[i]] ELSE s[i]]

\* String.prototype.includes
includes(hay, needle) ==
  \E i \in 0..(Len(hay) - Len(needle)) : SubSeq(hay, i + 1, i + Len(needle)) = needle

\* String.prototype.startsWith
startsWith(s, prefix) ==
  Len(s) >= Len(prefix) /\ SubSeq(s, 1, Len(prefix)) = prefix

Letters ==
  {"a", "b", "c", "d", "e", "f", "g", "h", "i", "j", "k", "l", "m", "n", "o", "p",
   "q", "r", "s", "t", "u", "v", "w", "x", "y", "z"}

DigitChars == <<"0", "1", "2", "3", "4", "5", "6", "7", "8", "9">>

SchemeChars ==
  Letters \cup {DigitChars[i] : i \in 1..10} \cup {"+", "-", "."}

S_http == <<"h", "t", "t", "p">>
S_https == <<"h", "t", "t", "p", "s">>
S_httpsPrefix == <<"h", "t", "t", "p", "s", ":", "/", "/">>
S_mock == <<"m", "o", "c", "k">>
S_test == <<"t", "e", "s", "t">>
S_example == <<"e", "x", "a", "m", "p", "l", "e">>

RECURSIVE stripSlashes(_)
stripSlashes(s) ==
  IF s # <<>> /\ Head(s) \in {"/", "\\"} THEN stripSlashes(Tail(s)) ELSE s

\* new URL(s) without a base: s needs a scheme (a letter, then scheme characters,
\* then ":"), and a special scheme (http, https) needs a non-empty host.
URLParses(s) ==
  \E i \in 2..Len(s) :
    /\ s[i] = ":"
    /\ toLowerCase(<<s[1]>>)[1] \in Letters
    /\ \A j \in 1..(i - 1) : toLowerCase(<<s[j]>>)[1] \in SchemeChars
    /\ toLowerCase(SubSeq(s, 1, i - 1)) \in {S_http, S_https}
         => stripSlashes(SubSeq(s, i + 1, Len(s))) # <<>>

(***************************************************************************)
(* JSON values and JSON.stringify.  A params object is a sequence of       *)
(* fields [k, v] with distinct keys, in property order.                    *)
(***************************************************************************)
StrV(s) == [kind |-> "str", s |-> s, n |-> 0, f |-> <<>>, iv |-> 0]
NumV(n) == [kind |-> "num", s |-> <<>>, n |-> n, f |-> <<>>, iv |-> 0]
ObjV(f) == [kind |-> "obj", s |-> <<>>, n |-> 0, f |-> f, iv |-> 0]

\* JavaScript truthiness of a value: "" and 0 are falsy, objects are truthy.
Truthy(v) ==
  CASE v.kind = "str" -> v.s # <<>>
    [] v.kind = "num" -> v.n # 0
    [] OTHER -> TRUE

\* JSON.stringify of a string: a quote and a backslash are escaped by a backslash
RECURSIVE escapeJSON(_)
escapeJSON(s) ==
  IF s = <<>> THEN <<>>
  ELSE (IF s[1] \in {"\"", "\\"} THEN <<"\\", s[1]>> ELSE <<s[1]>>) \o escapeJSON(Tail(s))

Quoted(s) == <<"\"">> \o escapeJSON(s) \o <<"\"">>

\* the inner object of an ObjV: string-valued properties only
RECURSIVE stringifyProps(_)
stringifyProps(f) ==
  IF f = <<>> THEN <<>>
  ELSE Quoted(f[1][1]) \o <<":">> \o Quoted(f[1][2])
       \o (IF Len(f) > 1 THEN <<",">> ELSE <<>>) \o stringifyProps(Tail(f))

stringifyValue(v) ==
  CASE v.kind = "str" -> Quoted(v.s)
    [] v.kind = "num" -> <<DigitChars[v.n + 1]>>
    [] v.kind = "obj" -> <<"{">> \o stringifyProps(v.f) \o <<"}">>
    [] OTHER -> <<"{", "}">>

RECURSIVE stringifyFields(_)
stringifyFields(d) ==
  IF d = <<>> THEN <<>>
  ELSE Quoted(d[1].k) \o <<":">> \o stringifyValue(d[1].v)
       \o (IF Len(d) > 1 THEN <<",">> ELSE <<>>) \o stringifyFields(Tail(d))

\* JSON.stringify(data) for a params object
stringify(d) == <<"{">> \o stringifyFields(d) \o <<"}">>

(***************************************************************************)
(* Connector configurations.  type "" , endpoint <<>> and auth "missing"   *)
(* stand for an absent property; hc.present = FALSE for an absent          *)
(* healthcareCompliance object.                                            *)
(***************************************************************************)
HC(p, hipaa, nphies, enc, audit) ==
  [present |-> p, hipaa |-> hipaa, nphies |-> nphies,
   encryptionRequired |-> enc, auditRequired |-> audit]

NoHC == HC(FALSE, FALSE, FALSE, FALSE, FALSE)

\* config.healthcareCompliance?.encryptionRequired, as a condition
hcEncryptionRequired(config) == config.hc.present /\ config.hc.encryptionRequired

\* config.healthcareCompliance?.auditRequired, as a condition
hcAuditRequired(config) == config.hc.present /\ config.hc.auditRequired

Violation(rule, severity, framework) ==
  [rule |-> rule, severity |-> severity, framework |-> framework]

\* Array.prototype.filter(v => v.severity === sev)
bySeverity(list, sev) == SelectSeq(list, LAMBDA v : v.severity = sev)

(***************************************************************************)
(* HealthcareComplianceValidator: config-time rules.                       *)
(***************************************************************************)
HIPAAValidateConfig(config) ==
  LET enc   == hcEncryptionRequired(config)
      audit == ~(~hcAuditRequired(config) /\ config.type # "audit_system")
      acc   == config.auth \in {"oauth2", "certificate", "bearer", "apikey"}
      https == startsWith(config.endpoint, S_httpsPrefix)
  IN [violations |->
        (IF enc THEN <<>> ELSE <<Violation("HIPAA_ENCRYPTION", "HIGH", "HIPAA")>>)
        \o (IF audit THEN <<>> ELSE <<Violation("HIPAA_AUDIT", "HIGH", "HIPAA")>>)
        \o (IF acc THEN <<>> ELSE <<Violation("HIPAA_ACCESS_CONTROL", "HIGH", "HIPAA")>>)
        \o (IF https THEN <<>> ELSE <<Violation("HIPAA_HTTPS", "HIGH", "HIPAA")>>),
      warnings |-> <<>>,
      passed |->
        (IF enc THEN <<"HIPAA_ENCRYPTION">> ELSE <<>>)
        \o (IF audit THEN <<"HIPAA_AUDIT">> ELSE <<>>)
        \o (IF acc THEN <<"HIPAA_ACCESS_CONTROL">> ELSE <<>>)
        \o (IF https THEN <<"HIPAA_HTTPS">> ELSE <<>>)]

NPHIESValidateConfig(config) ==
  IF config.hc.present /\ config.hc.nphies
  THEN [violations |-> <<>>,
        warnings |->
          (IF config.arabic THEN <<>>
           ELSE <<Violation("NPHIES_ARABIC_SUPPORT", "MEDIUM", "NPHIES")>>)
          \o (IF config.saudi THEN <<>>
              ELSE <<Violation("NPHIES_SAUDI_DATA", "MEDIUM", "NPHIES")>>),
        passed |->
          (IF config.arabic THEN <<"NPHIES_ARABIC_SUPPORT">> ELSE <<>>)
          \o (IF config.saudi THEN <<"NPHIES_SAUDI_DATA">> ELSE <<>>)]
  ELSE [violations |-> <<>>, warnings |-> <<>>, passed |-> <<>>]

GeneralValidateConfig(config) ==
  [violations |-> <<>>,
   warnings |->
     (IF config.retryAttempts > 5
      THEN <<Violation("GENERAL_RETRY_LIMIT", "LOW", "GENERAL")>> ELSE <<>>)
     \o (IF config.timeoutMs > 60000
         THEN <<Violation("GENERAL_TIMEOUT", "LOW", "GENERAL")>> ELSE <<>>),
   passed |->
     (IF config.retryAttempts > 5 THEN <<>> ELSE <<"GENERAL_RETRY_LIMIT">>)
     \o (IF config.timeoutMs > 60000 THEN <<>> ELSE <<"GENERAL_TIMEOUT">>)]

\* rules = this.rules[framework] || this.rules.GENERAL; rules.validateConfig(config)
validateFramework(config, framework) ==
  CASE framework = "HIPAA" -> HIPAAValidateConfig(config)
    [] framework = "NPHIES" -> NPHIESValidateConfig(config)
    [] OTHER -> GeneralValidateConfig(config)

\* a faulty determineOverallCompliance: warnings are counted as violations
determineOverallCompliance_countsWarnings(validationResults, strictMode) ==
  LET all == validationResults.violations \o validationResults.warnings
  IN IF bySeverity(all, "HIGH") # <<>> THEN "NON_COMPLIANT"
     ELSE IF bySeverity(all, "MEDIUM") # <<>>
          THEN (IF strictMode THEN "NON_COMPLIANT" ELSE "CONDITIONALLY_COMPLIANT")
          ELSE "COMPLIANT"

determineOverallCompliance(validationResults, strictMode) ==
  IF bySeverity(validationResults.violations, "HIGH") # <<>> THEN "NON_COMPLIANT"
  ELSE IF bySeverity(validationResults.violations, "MEDIUM") # <<>>
       THEN (IF strictMode THEN "NON_COMPLIANT" ELSE "CONDITIONALLY_COMPLIANT")
       ELSE "COMPLIANT"

\* this.strictMode = config.strictMode || true
validatorStrictMode(option) == option \/ TRUE

\* strictMode: this.config.strictCompliance || true
managerStrictMode(strictCompliance) == strictCompliance \/ TRUE

RECURSIVE collectFrameworks(_, _)
collectFrameworks(config, frameworks) ==
  IF frameworks = <<>>
  THEN [violations |-> <<>>, warnings |-> <<>>, passed |-> <<>>]
  ELSE LET r    == validateFramework(config, Head(frameworks))
           rest == collectFrameworks(config, Tail(frameworks))
       IN [violations |-> r.violations \o rest.violations,
           warnings |-> r.warnings \o rest.warnings,
           passed |-> r.passed \o rest.passed]

\* the verdict validateConnectorCompliance returns (its audit-log await is a step
\* of the caller's task)
validateConnectorCompliance(config, frameworks, strictMode) ==
  LET c == collectFrameworks(config, frameworks)
  IN [overall |-> determineOverallCompliance(c, strictMode),
      violations |-> c.violations, warnings |-> c.warnings, passed |-> c.passed]

(***************************************************************************)
(* HealthcareComplianceValidator: data-time rules.                         *)
(***************************************************************************)
phiIndicators ==
  << <<"p", "a", "t", "i", "e", "n", "t">>,
     <<"m", "e", "d", "i", "c", "a", "l">>,
     <<"d", "i", "a", "g", "n", "o", "s", "i", "s">>,
     <<"t", "r", "e", "a", "t", "m", "e", "n", "t">>,
     <<"m", "e", "d", "i", "c", "a", "t", "i", "o", "n">>,
     <<"a", "l", "l", "e", "r", "g", "y">>,
     <<"c", "o", "n", "d", "i", "t", "i", "o", "n">>,
     <<"p", "r", "o", "c", "e", "d", "u", "r", "e">>,
     <<"o", "b", "s", "e", "r", "v", "a", "t", "i", "o", "n">>,
     <<"e", "n", "c", "o", "u", "n", "t", "e", "r">>,
     <<"b", "i", "r", "t", "h", "d", "a", "t", "e">>,
     <<"s", "s", "n">>,
     <<"m", "e", "d", "i", "c", "a", "l", "_", "r", "e", "c", "o", "r", "d", "_",
       "n", "u", "m", "b", "e", "r">>,
     <<"m", "r", "n">> >>

piiIndicators ==
  << <<"n", "a", "m", "e">>,
     <<"a", "d", "d", "r", "e", "s", "s">>,
     <<"p", "h", "o", "n", "e">>,
     <<"e", "m", "a", "i", "l">>,
     <<"i", "d", "e", "n", "t", "i", "f", "i", "e", "r">>,
     <<"s", "o", "c", "i", "a", "l", "_", "s", "e", "c", "u", "r", "i", "t", "y">>,
     <<"p", "a", "s", "s", "p", "o", "r", "t">>,
     <<"l", "i", "c", "e", "n", "s", "e">> >>

classifyDataSensitivity(data) ==
  LET dataString == toLowerCase(stringify(data))
      phi == SelectSeq(phiIndicators, LAMBDA w : includes(dataString, w))
      pii == SelectSeq(piiIndicators, LAMBDA w : includes(dataString, w))
  IN [level |-> IF phi # <<>> THEN "PHI" ELSE IF pii # <<>> THEN "PII" ELSE "PUBLIC",
      containsPHI |-> phi # <<>>,
      containsPII |-> pii # <<>>,
      sensitiveFields |-> phi \o pii,
      riskLevel |-> IF phi # <<>> THEN "HIGH" ELSE IF pii # <<>> THEN "MEDIUM" ELSE "LOW"]

\* a faulty requiresEncryption: the configuration alone decides
requiresEncryption_configOnly(dataClassification, connectorConfig) ==
  hcEncryptionRequired(connectorConfig)

requiresEncryption(dataClassification, connectorConfig) ==
  IF dataClassification.containsPHI THEN TRUE
  ELSE hcEncryptionRequired(connectorConfig)

requiresAuditLogging(dataClassification, connectorConfig) ==
  IF dataClassification.containsPHI THEN TRUE
  ELSE hcAuditRequired(connectorConfig)

\* policy hook, permissive
validateMinimumNecessary(data) == TRUE

validateAccessControls(authentication) ==
  authentication \in {"oauth2", "bearer", "certificate"}

validatePHIHandling(data, connectorConfig) ==
  (IF ~validateMinimumNecessary(data)
   THEN <<Violation("MINIMUM_NECESSARY", "HIGH", "HIPAA")>> ELSE <<>>)
  \o (IF connectorConfig.auth = "missing" \/ ~validateAccessControls(connectorConfig.auth)
      THEN <<Violation("ACCESS_CONTROLS", "HIGH", "HIPAA")>> ELSE <<>>)
  \o (IF ~hcEncryptionRequired(connectorConfig)
      THEN <<Violation("ENCRYPTION_REQUIRED", "HIGH", "HIPAA")>> ELSE <<>>)

\* rules.validateData of every rule class returns no violation and no warning
validateDataAgainstFramework(data, connectorConfig, framework) ==
  [violations |-> <<>>, warnings |-> <<>>]

RECURSIVE collectDataFrameworks(_, _, _)
collectDataFrameworks(data, connectorConfig, frameworks) ==
  IF frameworks = <<>> THEN <<>>
  ELSE validateDataAgainstFramework(data, connectorConfig, Head(frameworks)).violations
       \o collectDataFrameworks(data, connectorConfig, Tail(frameworks))

validateDataTransmission(data, connectorConfig, frameworks) ==
  LET cls == classifyDataSensitivity(data)
      violations ==
        (IF cls.containsPHI THEN validatePHIHandling(data, connectorConfig) ELSE <<>>)
        \o collectDataFrameworks(data, connectorConfig, frameworks)
  IN [compliant |-> violations = <<>>,
      violations |-> violations,
      dataClassification |-> cls,
      encryptionRequired |-> requiresEncryption(cls, connectorConfig),
      auditRequired |-> requiresAuditLogging(cls, connectorConfig)]

(***************************************************************************)
(* Inputs: configurations, payloads, manager options.                      *)
(***************************************************************************)
S_patientData == <<"p", "a", "t", "i", "e", "n", "t", "D", "a", "t", "a">>
S_phi == <<"p", "h", "i">>
S_personalInfo == <<"p", "e", "r", "s", "o", "n", "a", "l", "I", "n", "f", "o">>
S_diagnosis == <<"d", "i", "a", "g", "n", "o", "s", "i", "s">>
S_query == <<"q", "u", "e", "r", "y">>
S_Name == <<"N", "a", "m", "e">>
S_MRN == <<"M", "R", "N">>
S_flu == <<"f", "l", "u">>
E_real == <<"h", "t", "t", "p", "s", ":", "/", "/", "x">>
E_mockHost == <<"h", "t", "t", "p", "s", ":", "/", "/", "m", "o", "c", "k", ".", "i", "o">>
E_http == <<"h", "t", "t", "p", ":", "/", "/", "x">>
E_notUrl == <<"n", "o", "t", "-", "a", "-", "u", "r", "l">>

Config(type, endpoint, auth, hc, enc) ==
  [type |-> type, endpoint |-> endpoint, auth |-> auth, hc |-> hc,
   encryptSensitiveData |-> enc, arabic |-> FALSE, saudi |-> FALSE,
   retryAttempts |-> 3, timeoutMs |-> 30000]

FullHC == HC(TRUE, TRUE, FALSE, TRUE, TRUE)

\* the configurations offered to registerConnector
RegConfigs ==
  << Config("ehr", E_real, "bearer", FullHC, TRUE),
     Config("ehr", E_real, "apikey", FullHC, TRUE),
     Config("fhir", E_mockHost, "bearer", HC(TRUE, TRUE, TRUE, TRUE, TRUE), FALSE),
     Config("ehr", E_real, "bearer", HC(TRUE, TRUE, FALSE, FALSE, TRUE), TRUE),
     Config("ehr", E_http, "bearer", FullHC, TRUE),
     Config("ehr", E_notUrl, "bearer", FullHC, TRUE),
     Config("ehr", E_real, "bearer", NoHC, TRUE),
     Config("ehr", E_real, "missing", FullHC, TRUE),
     Config("", E_real, "bearer", FullHC, TRUE),
     Config("ehr", <<>>, "bearer", FullHC, TRUE) >>

\* the params objects offered to executeRemoteCall
ExecPayloads ==
  << <<[k |-> S_query, v |-> StrV(S_flu)]>>,
     <<[k |-> S_diagnosis, v |-> StrV(S_flu)]>>,
     <<[k |-> S_patientData, v |-> ObjV(<<<<S_MRN, S_flu>>>>)],
       [k |-> S_query, v |-> StrV(S_flu)]>>,
     <<[k |-> S_phi, v |-> NumV(0)], [k |-> S_personalInfo, v |-> StrV(S_flu)]>> >>

\* complianceLevel: config.complianceLevel || 'HIPAA,NPHIES', split at ","
complianceLevel == <<"HIPAA", "NPHIES">>

AuthKinds == {"missing", "notype", "bearer", "apikey", "oauth2", "certificate", "basic"}

HCs ==
  {NoHC} \cup {HC(TRUE, h, n, e, a) : h \in BOOLEAN, n \in BOOLEAN, e \in BOOLEAN, a \in BOOLEAN}

(***************************************************************************)
(* HealthcareConnector.                                                    *)
(***************************************************************************)
Ids == 1..NumIds
Insts == 1..MaxInst
Slots == 1..MaxTasks

\* what the transport answers: a 2xx response, a 401 response, ECONNREFUSED, a timeout
NetOutcomes == {"ok", "401", "refused", "timeout"}

\* averageResponseTime is kept as the reduced fraction num/den
NoObj ==
  [used |-> FALSE, c |-> 0, status |-> "disconnected",
   callsTotal |-> 0, callsSuccessful |-> 0, callsFailed |-> 0,
   averageResponseTime |-> [num |-> 0, den |-> 1], lastResponseTime |-> 0,
   auth |-> "missing"]

\* constructor: c indexes the config object the connector keeps, auth is the
\* authentication property of that object
NewConnector(c) == [NoObj EXCEPT !.used = TRUE, !.c = c, !.auth = RegConfigs[c].auth]

\* this.config of a connector
storedConfig(connector) == [RegConfigs[connector.c] EXCEPT !.auth = connector.auth]

\* a faulty getConfig: it deletes the property of this.config itself
getConfig_inPlace(config) ==
  [returned |-> [config EXCEPT !.auth = "missing"],
   stored   |-> [config EXCEPT !.auth = "missing"]]

\* getConfig: a shallow copy of this.config without its authentication property
getConfig(config) ==
  [returned |-> [config EXCEPT !.auth = "missing"], stored |-> config]

RECURSIVE GCD(_, _)
GCD(a, b) == IF b = 0 THEN a ELSE GCD(b, a % b)

\* the fraction n/d (n >= 0, d > 0) in lowest terms
Fraction(n, d) == LET g == GCD(n, d) IN [num |-> n \div g, den |-> d \div g]

\* a faulty calculateAverageResponseTime: the mean of the old average and the sample
calculateAverageResponseTime_halves(metrics, newTime) ==
  LET currentAverage == metrics.averageResponseTime
  IN IF metrics.callsTotal = 1 THEN Fraction(newTime, 1)
     ELSE Fraction(currentAverage.num + newTime * currentAverage.den, currentAverage.den * 2)

\* ((currentAverage * (totalCalls - 1)) + newTime) / totalCalls
calculateAverageResponseTime(metrics, newTime) ==
  LET totalCalls     == metrics.callsTotal
      currentAverage == metrics.averageResponseTime
  IN Fraction(currentAverage.num * (totalCalls - 1) + newTime * currentAverage.den,
              currentAverage.den * totalCalls)

\* executeCall, first statement of the try block
recordAttempt(connector) == [connector EXCEPT !.callsTotal = @ + 1]

\* executeCall, "Update metrics" after the result is there
recordSuccess(connector, responseTime) ==
  [connector EXCEPT !.callsSuccessful = @ + 1,
                    !.lastResponseTime = responseTime,
                    !.averageResponseTime = calculateAverageResponseTime(connector, responseTime)]

\* a faulty catch block of executeCall: the failure is not counted
recordFailure_notCounted(connector, responseTime) ==
  [connector EXCEPT !.lastResponseTime = responseTime]

\* executeCall, catch block
recordFailure(connector, responseTime) ==
  [connector EXCEPT !.callsFailed = @ + 1, !.lastResponseTime = responseTime]

\* Date.now() - startTime of the calls the manager's callers make
CallLatencies == {1}

\* this.config.endpoint.includes('mock') || ...includes('test') || ...includes('example')
isMockEndpoint(endpoint) ==
  includes(endpoint, S_mock) \/ includes(endpoint, S_test) \/ includes(endpoint, S_example)

\* setupInterceptors: the response interceptor's error handler
interceptResponseError(status, r) ==
  IF r = "401" THEN "unauthorized"
  ELSE IF r = "refused" THEN "disconnected"
  ELSE status

\* testConnection on a real endpoint, once the GET /health has ended with r
\* a faulty testConnection: it leaves the status as the constructor set it
testConnection_keepsStatus(status, r) ==
  IF r = "ok" THEN status ELSE "error"

testConnection(status, r) ==
  IF r = "ok" THEN "connected"
  ELSE LET intercepted == interceptResponseError(status, r) IN "error"

\* HealthcareEncryption.encrypt: the blob {encrypted, iv, authTag}; s stands for the
\* ciphertext of the serialized value under the key and iv
encrypt(value, iv) ==
  [kind |-> "blob", s |-> stringifyValue(value), n |-> 0, f |-> <<>>, iv |-> iv]

sensitiveFields == <<S_patientData, S_phi, S_personalInfo>>

\* this.globalConfig.encryptionKey is set (the manager cannot be constructed without)
encryptionKeySet == TRUE

fieldIndex(k) == CHOOSE j \in 1..Len(sensitiveFields) : sensitiveFields[j] = k

isSensitiveField(k) == \E j \in 1..Len(sensitiveFields) : sensitiveFields[j] = k

\* processSensitiveData: processed is what it returns, data is the caller's object
\* after the call (processedData = { ...data } is a copy)
processSensitiveData(config, data, ivs) ==
  IF config.encryptSensitiveData /\ encryptionKeySet
  THEN [processed |->
          [i \in 1..Len(data) |->
             IF isSensitiveField(data[i].k) /\ Truthy(data[i].v)
             THEN [k |-> data[i].k, v |-> encrypt(data[i].v, ivs[fieldIndex(data[i].k)])]
             ELSE data[i]],
        data |-> data]
  ELSE [processed |-> data, data |-> data]

NoIvs == [j \in 1..3 |-> 0]

\* the initialization vectors the encrypt calls of one processSensitiveData draw
usedIvs(config, data, ivs) ==
  [j \in 1..3 |->
     IF /\ config.encryptSensitiveData /\ encryptionKeySet
        /\ \E i \in 1..Len(data) : data[i].k = sensitiveFields[j] /\ Truthy(data[i].v)
     THEN ivs[j] ELSE 0]

(***************************************************************************)
(* WebConnectorManager: registry helpers.                                  *)
(***************************************************************************)
\* Map.prototype.has / get / set / delete on the insertion-ordered connectors map
has(m, id) == \E i \in 1..Len(m) : m[i].id = id

get(m, id) == IF has(m, id) THEN (CHOOSE e \in {m[i] : i \in 1..Len(m)} : e.id = id).inst ELSE 0

mapSet(m, id, inst) ==
  IF has(m, id)
  THEN [i \in 1..Len(m) |-> IF m[i].id = id THEN [id |-> id, inst |-> inst] ELSE m[i]]
  ELSE Append(m, [id |-> id, inst |-> inst])

mapDelete(m, id) == SelectSeq(m, LAMBDA e : e.id # id)

\* a faulty validateConnectorConfig: the endpoint is not parsed
validateConnectorConfig_noURLCheck(config) ==
  /\ config.type # ""
  /\ config.endpoint # <<>>
  /\ config.auth # "missing"
  /\ config.hc.present

\* validateConnectorConfig: TRUE when it returns, FALSE when it throws
validateConnectorConfig(config) ==
  /\ config.type # ""
  /\ config.endpoint # <<>>
  /\ config.auth # "missing"
  /\ config.hc.present
  /\ URLParses(config.endpoint)

\* registerConnector, lines 79-87: the verdict aborts the registration
registrationBlocked(complianceResult) ==
  /\ complianceResult.overall # "COMPLIANT"
  /\ bySeverity(complianceResult.violations, "HIGH") # <<>>

\* executeRemoteCall, lines 162-170: the verdict aborts the call
transmissionBlocked(dataValidation) ==
  /\ ~dataValidation.compliant
  /\ bySeverity(dataValidation.violations, "HIGH") # <<>>

\* validateConnectorHealth: a probe is made before the call
needsHealthProbe(healthCheck) == healthCheck # "healthy"

(***************************************************************************)
(* The verdicts for the offered inputs, computed once.                     *)
(***************************************************************************)
CfgIdx == 1..Len(RegConfigs)
PayloadIdx == 1..Len(ExecPayloads)

shapeOK == [c \in CfgIdx |-> validateConnectorConfig(RegConfigs[c])]

configVerdict ==
  [c \in CfgIdx |->
     validateConnectorCompliance(RegConfigs[c], complianceLevel, managerStrictMode(FALSE))]

regBlocked == [c \in CfgIdx |-> registrationBlocked(configVerdict[c])]

mockEndpoint == [c \in CfgIdx |-> isMockEndpoint(RegConfigs[c].endpoint)]

dataVerdict ==
  [c \in CfgIdx |-> [p \in PayloadIdx |->
     validateDataTransmission(ExecPayloads[p], RegConfigs[c], complianceLevel)]]

callBlocked == [c \in CfgIdx |-> [p \in PayloadIdx |-> transmissionBlocked(dataVerdict[c][p])]]

IvChoices == [1..3 -> 1..MaxIv]

\* the draws of initialization vectors that differ for (config, params)
ivDraws ==
  [c \in CfgIdx |-> [p \in PayloadIdx |->
     {usedIvs(RegConfigs[c], ExecPayloads[p], ivs) : ivs \in IvChoices}]]

(***************************************************************************)
(* Tasks.  A task is one call of registerConnector, unregisterConnector,   *)
(* executeRemoteCall or getConnectorStatus; pc names the await it is       *)
(* suspended at.  cause is the first error thrown, err the error the call  *)
(* finally rejects with; the other flags record what the call has done     *)
(* (emitted: it has emitted connectorRegistered or connectorUnregistered;   *)
(* probe: how the probe of validateConnectorHealth has just ended).         *)
(***************************************************************************)
Idle ==
  [pc |-> "idle", op |-> "none", id |-> 0, inst |-> 0, c |-> 0, p |-> 0,
   ivs |-> NoIvs, req |-> <<>>, cause |-> "none", err |-> "none", ok |-> FALSE,
   absent |-> FALSE, validated |-> FALSE, constructed |-> FALSE, tested |-> FALSE,
   net |-> FALSE, called |-> FALSE, sent |-> FALSE, wrote |-> FALSE,
   intact |-> TRUE, del |-> 0, conf |-> <<>>, emitted |-> FALSE, probe |-> "none"]

Call(op, id) == [Idle EXCEPT !.op = op, !.id = id, !.absent = ~has(connectors, id)]

\* a settled call's continuation in the caller is a microtask: it runs before the
\* next I/O or timer callback and before the caller makes another call
NoneSettled == \A t \in Slots : tasks[t].pc # "done"

\* throw inside the try block: control goes to the catch block, which logs first
Throw(tk, cause) == [tk EXCEPT !.pc = "catch_log", !.cause = cause, !.err = cause]

UsedInsts == {i \in Insts : objs[i].used}

nextInst == Cardinality(UsedInsts) + 1

\* the live Map iterator of a tick in flight sees an entry appended behind it
todoAfterSet(id) ==
  IF tick.active /\ ~has(connectors, id) THEN [tick EXCEPT !.todo = Append(@, id)] ELSE tick

\* ... and no longer sees a deleted entry
todoAfterDelete(id) ==
  [tick EXCEPT !.todo = SelectSeq(@, LAMBDA x : x # id), !.stable = @ \ {id}]

(***************************************************************************)
(* registerConnector                                                       *)
(***************************************************************************)
RegisterStart(t, id, c) ==
  /\ NoneSettled /\ started < MaxOps
  /\ tasks[t].pc = "idle"
  /\ Cardinality(UsedInsts) + Cardinality({u \in Slots : tasks[u].pc = "reg_compl_log"}) < MaxInst
  /\ started' = started + 1
  /\ tasks' = [tasks EXCEPT ![t] =
       IF shapeOK[c]
       THEN [Call("register", id) EXCEPT !.c = c, !.pc = "reg_compl_log", !.validated = TRUE]
       ELSE Throw([Call("register", id) EXCEPT !.c = c], "validation")]
  /\ UNCHANGED <<connectors, healthChecks, objs, tick, removed, pf>>

\* validateConnectorCompliance has logged its verdict (or the sink has rejected);
\* then the connector is constructed and testConnection starts
RegComplLog(t) ==
  /\ NoneSettled
  /\ tasks[t].pc = "reg_compl_log"
  /\ \E sinkOk \in BOOLEAN :
       LET tk  == tasks[t]
           i   == nextInst
       IN IF ~sinkOk
          THEN /\ tasks' = [tasks EXCEPT ![t].pc = "reg_compl_catch_log"]
               /\ UNCHANGED <<connectors, objs, tick>>
          ELSE IF regBlocked[tk.c]
          THEN /\ tasks' = [tasks EXCEPT ![t] = Throw(tk, "compliance")]
               /\ UNCHANGED <<connectors, objs, tick>>
          ELSE IF mockEndpoint[tk.c]
          THEN /\ objs' = [objs EXCEPT ![i] = [NewConnector(tk.c) EXCEPT !.status = "connected"]]
               /\ connectors' = mapSet(connectors, tk.id, i)
               /\ tick' = todoAfterSet(tk.id)
               /\ tasks' = [tasks EXCEPT ![t] =
                    [tk EXCEPT !.pc = "reg_log", !.inst = i, !.constructed = TRUE,
                               !.tested = TRUE, !.wrote = TRUE]]
          ELSE /\ objs' = [objs EXCEPT ![i] = NewConnector(tk.c)]
               /\ tasks' = [tasks EXCEPT ![t] =
                    [tk EXCEPT !.pc = "reg_test", !.inst = i, !.constructed = TRUE,
                               !.tested = TRUE, !.net = TRUE]]
               /\ UNCHANGED <<connectors, tick>>
  /\ UNCHANGED <<healthChecks, removed, started, pf>>

\* the catch block of validateConnectorCompliance has logged; the error propagates
RegComplCatchLog(t) ==
  /\ NoneSettled
  /\ tasks[t].pc = "reg_compl_catch_log"
  /\ tasks' = [tasks EXCEPT ![t] = Throw(tasks[t], "audit")]
  /\ UNCHANGED <<connectors, healthChecks, objs, tick, removed, started, pf>>

\* the GET /health of testConnection has ended; on success the connector is stored
RegTest(t) ==
  /\ NoneSettled
  /\ tasks[t].pc = "reg_test"
  /\ \E r \in NetOutcomes, responseTime \in CallLatencies :
       LET tk == tasks[t]
           st == testConnection(objs[tk.inst].status, r)
       IN /\ objs' = [objs EXCEPT ![tk.inst].status = st,
                                  ![tk.inst].lastResponseTime =
                                     IF r = "ok" THEN responseTime ELSE @]
          /\ IF r = "ok"
             THEN /\ connectors' = mapSet(connectors, tk.id, tk.inst)
                  /\ tick' = todoAfterSet(tk.id)
                  /\ tasks' = [tasks EXCEPT ![t] = [tk EXCEPT !.pc = "reg_log", !.wrote = TRUE]]
             ELSE /\ tasks' = [tasks EXCEPT ![t] = Throw(tk, "connection")]
                  /\ UNCHANGED <<connectors, tick>>
  /\ UNCHANGED <<healthChecks, removed, started, pf>>

\* logConnectorEvent(CONNECTOR_REGISTERED) has ended; emit and return
RegLog(t) ==
  /\ NoneSettled
  /\ tasks[t].pc = "reg_log"
  /\ \E sinkOk \in BOOLEAN :
       tasks' = [tasks EXCEPT ![t] =
         IF sinkOk THEN [tasks[t] EXCEPT !.pc = "done", !.ok = TRUE, !.emitted = TRUE]
         ELSE Throw(tasks[t], "audit")]
  /\ UNCHANGED <<connectors, healthChecks, objs, tick, removed, started, pf>>

\* the catch block of registerConnector, unregisterConnector or executeRemoteCall:
\* logConnectorEvent(..., 'FAILURE') has ended; the call rejects
CatchLog(t) ==
  /\ NoneSettled
  /\ tasks[t].pc = "catch_log"
  /\ \E sinkOk \in BOOLEAN :
       tasks' = [tasks EXCEPT ![t] =
         [tasks[t] EXCEPT !.pc = "done", !.ok = FALSE, !.probe = "none",
                          !.err = IF sinkOk THEN @ ELSE "audit"]]
  /\ UNCHANGED <<connectors, healthChecks, objs, tick, removed, started, pf>>

(***************************************************************************)
(* unregisterConnector                                                     *)
(***************************************************************************)
\* lookup and connector.disconnect()
UnregisterStart(t, id) ==
  /\ NoneSettled /\ started < MaxOps
  /\ tasks[t].pc = "idle"
  /\ started' = started + 1
  /\ LET i == get(connectors, id)
     IN IF i = 0
        THEN /\ tasks' = [tasks EXCEPT ![t] = Throw(Call("unregister", id), "notfound")]
             /\ UNCHANGED objs
        ELSE /\ tasks' = [tasks EXCEPT ![t] =
                  [Call("unregister", id) EXCEPT !.pc = "unreg_delete", !.inst = i]]
             /\ objs' = [objs EXCEPT ![i].status = "disconnected"]
  /\ UNCHANGED <<connectors, healthChecks, tick, removed, pf>>

\* after await connector.disconnect(): remove from maps
UnregisterDelete(t) ==
  /\ NoneSettled
  /\ tasks[t].pc = "unreg_delete"
  /\ connectors' = mapDelete(connectors, tasks[t].id)
  /\ healthChecks' = [healthChecks EXCEPT ![tasks[t].id] = "none"]
  /\ tick' = todoAfterDelete(tasks[t].id)
  /\ tasks' = [tasks EXCEPT ![t] =
       [tasks[t] EXCEPT !.pc = "unreg_log", !.wrote = TRUE,
                        !.del = get(connectors, tasks[t].id)]]
  /\ UNCHANGED <<objs, removed, started, pf>>

\* logConnectorEvent(CONNECTOR_UNREGISTERED) has ended; emit and return
UnregisterLog(t) ==
  /\ NoneSettled
  /\ tasks[t].pc = "unreg_log"
  /\ \E sinkOk \in BOOLEAN :
       IF sinkOk
       THEN /\ tasks' = [tasks EXCEPT ![t] =
                 [tasks[t] EXCEPT !.pc = "done", !.ok = TRUE, !.emitted = TRUE]]
            /\ removed' = removed \cup ({tasks[t].del} \ {0})
       ELSE /\ tasks' = [tasks EXCEPT ![t] = Throw(tasks[t], "audit")]
            /\ UNCHANGED removed
  /\ UNCHANGED <<connectors, healthChecks, objs, tick, started, pf>>

(***************************************************************************)
(* executeRemoteCall and HealthcareConnector.executeCall                   *)
(***************************************************************************)
\* after validateConnectorHealth: validateDataTransmission, the compliance gate,
\* and executeCall up to its first await (callsTotal++, processSensitiveData)
ExecProceed(tk, o, ivs) ==
  LET c    == o[tk.inst].c
      data == ExecPayloads[tk.p]
      r    == processSensitiveData(RegConfigs[c], data, ivs)
  IN IF callBlocked[c][tk.p]
     THEN [task |-> Throw(tk, "compliance"), objs |-> o]
     ELSE [task |-> [tk EXCEPT !.pc = "exec_audit", !.called = TRUE, !.ivs = ivs,
                               !.intact = (r.data = data)],
           objs |-> [o EXCEPT ![tk.inst] = recordAttempt(@)]]

ExecStart(t, id, p) ==
  /\ NoneSettled /\ started < MaxOps
  /\ tasks[t].pc = "idle"
  /\ started' = started + 1
  /\ LET i  == get(connectors, id)
         tk == [Call("execute", id) EXCEPT !.p = p, !.inst = i]
     IN IF i = 0
        THEN /\ tasks' = [tasks EXCEPT ![t] = Throw(tk, "notfound")]
             /\ UNCHANGED objs
        ELSE IF needsHealthProbe(healthChecks[id])
        THEN /\ tasks' = [tasks EXCEPT ![t] = [tk EXCEPT !.pc = "exec_probe", !.net = TRUE]]
             /\ UNCHANGED objs
        ELSE \E ivs \in ivDraws[objs[i].c][p] :
               LET next == ExecProceed(tk, objs, ivs)
               IN /\ tasks' = [tasks EXCEPT ![t] = next.task]
                  /\ objs' = next.objs
  /\ UNCHANGED <<connectors, healthChecks, tick, removed, pf>>

\* the GET /health of validateConnectorHealth has ended (its result is dropped)
ExecProbe(t) ==
  /\ NoneSettled
  /\ tasks[t].pc = "exec_probe"
  /\ \E r \in NetOutcomes, ivs \in ivDraws[objs[tasks[t].inst].c][tasks[t].p] :
       LET tk   == tasks[t]
           o    == [objs EXCEPT ![tk.inst].status =
                      IF r = "ok" THEN @ ELSE interceptResponseError(@, r)]
           next == ExecProceed([tk EXCEPT !.probe = r], o, ivs)
       IN /\ tasks' = [tasks EXCEPT ![t] = next.task]
          /\ objs' = next.objs
  /\ UNCHANGED <<connectors, healthChecks, tick, removed, started, pf>>

\* executeCall: logAccess(COMPLIANCE_VALIDATED) has ended; the synthetic result for
\* a mock endpoint, the POST /mcp/call for a real one
ExecAudit(t) ==
  /\ NoneSettled
  /\ tasks[t].pc = "exec_audit"
  /\ \E sinkOk \in BOOLEAN, responseTime \in CallLatencies :
       LET tk  == [tasks[t] EXCEPT !.probe = "none"]
           cfg == RegConfigs[objs[tk.inst].c]
       IN IF ~sinkOk
          THEN /\ objs' = [objs EXCEPT ![tk.inst] = recordFailure(@, responseTime)]
               /\ tasks' = [tasks EXCEPT ![t] = [Throw(tk, "remote") EXCEPT !.cause = "audit"]]
          ELSE IF mockEndpoint[objs[tk.inst].c]
          THEN /\ objs' = [objs EXCEPT ![tk.inst] = recordSuccess(@, responseTime)]
               /\ tasks' = [tasks EXCEPT ![t] = [tk EXCEPT !.pc = "exec_log"]]
          ELSE /\ tasks' = [tasks EXCEPT ![t] =
                    [tk EXCEPT !.pc = "exec_post", !.net = TRUE, !.sent = TRUE,
                               !.req = processSensitiveData(cfg, ExecPayloads[tk.p], tk.ivs).processed]]
               /\ UNCHANGED objs
  /\ UNCHANGED <<connectors, healthChecks, tick, removed, started, pf>>

\* executeCall: the POST /mcp/call has ended
ExecPost(t) ==
  /\ NoneSettled
  /\ tasks[t].pc = "exec_post"
  /\ \E r \in NetOutcomes, responseTime \in CallLatencies :
       LET tk == tasks[t]
       IN IF r = "ok"
          THEN /\ objs' = [objs EXCEPT ![tk.inst] = recordSuccess(@, responseTime)]
               /\ tasks' = [tasks EXCEPT ![t] = [tk EXCEPT !.pc = "exec_log", !.req = <<>>]]
          ELSE /\ objs' = [objs EXCEPT ![tk.inst] =
                            recordFailure([@ EXCEPT !.status = interceptResponseError(@, r)],
                                          responseTime)]
               /\ tasks' = [tasks EXCEPT ![t] = Throw([tk EXCEPT !.req = <<>>], "remote")]
  /\ UNCHANGED <<connectors, healthChecks, tick, removed, started, pf>>

\* logConnectorEvent(REMOTE_CALL_<METHOD>, 'SUCCESS') has ended; return the result
ExecLog(t) ==
  /\ NoneSettled
  /\ tasks[t].pc = "exec_log"
  /\ \E sinkOk \in BOOLEAN :
       tasks' = [tasks EXCEPT ![t] =
         IF sinkOk THEN [tasks[t] EXCEPT !.pc = "done", !.ok = TRUE]
         ELSE Throw(tasks[t], "audit")]
  /\ UNCHANGED <<connectors, healthChecks, objs, tick, removed, started, pf>>

(***************************************************************************)
(* getConnectorStatus, and the caller taking a settled call's result       *)
(***************************************************************************)
GetConnectorStatus(t, id) ==
  /\ NoneSettled /\ started < MaxOps
  /\ tasks[t].pc = "idle"
  /\ started' = started + 1
  /\ LET i == get(connectors, id)
     IN IF i = 0
        THEN /\ tasks' = [tasks EXCEPT ![t] =
                  [Call("status", id) EXCEPT !.pc = "done", !.cause = "notfound",
                                             !.err = "notfound"]]
             /\ UNCHANGED objs
        ELSE LET g == getConfig(storedConfig(objs[i]))
             IN /\ tasks' = [tasks EXCEPT ![t] =
                     [Call("status", id) EXCEPT !.pc = "done", !.ok = TRUE, !.inst = i,
                                                !.conf = <<g.returned>>]]
                /\ objs' = [objs EXCEPT ![i].auth = g.stored.auth]
  /\ UNCHANGED <<connectors, healthChecks, tick, removed, pf>>

\* listConnectors: getConnectorStatus of every entry, in the Map's order; each await
\* is of a promise that is already resolved
ListConnectors(t) ==
  /\ NoneSettled /\ started < MaxOps
  /\ tasks[t].pc = "idle"
  /\ started' = started + 1
  /\ LET registered == {connectors[k].inst : k \in 1..Len(connectors)}
     IN /\ tasks' = [tasks EXCEPT ![t] =
             [Call("list", 0) EXCEPT !.pc = "done", !.ok = TRUE, !.absent = FALSE,
                !.conf = [k \in 1..Len(connectors) |->
                            getConfig(storedConfig(objs[connectors[k].inst])).returned]]]
        /\ objs' = [i \in Insts |->
             IF i \in registered
             THEN [objs[i] EXCEPT !.auth = getConfig(storedConfig(objs[i])).stored.auth]
             ELSE objs[i]]
  /\ UNCHANGED <<connectors, healthChecks, tick, removed, pf>>

Return(t) ==
  /\ tasks[t].pc = "done"
  /\ tasks' = [tasks EXCEPT ![t] = Idle]
  /\ UNCHANGED <<connectors, healthChecks, objs, tick, removed, started, pf>>

(***************************************************************************)
(* startHealthCheckMonitoring: one run of the timer callback               *)
(***************************************************************************)
\* stable: the ids registered ever since the latest run started; probed: how the
\* probe of each id ended in that run; events: what the run emitted after the
\* latest probe of each id
NoTick ==
  [active |-> FALSE, id |-> 0, inst |-> 0, todo |-> <<>>,
   stable |-> {}, probed |-> [id \in Ids |-> "none"],
   events |-> [id \in Ids |-> "none"]]

\* a faulty performHealthCheck: a failing probe throws
performHealthCheck_throws(r) == [healthy |-> r = "ok", threw |-> r # "ok"]

\* performHealthCheck once its GET /health has ended with r: it catches the error
performHealthCheck(r) == [healthy |-> r = "ok", threw |-> FALSE]

\* the event the timer callback emits after a probe
healthEvent(healthStatus) ==
  IF healthStatus.threw THEN "connectorError"
  ELSE IF ~healthStatus.healthy THEN "connectorUnhealthy" ELSE "none"

\* the health record the timer callback stores for a probe
healthRecord(healthStatus) ==
  IF healthStatus.threw THEN "error"
  ELSE IF healthStatus.healthy THEN "healthy" ELSE "unhealthy"

\* the callback starts: the iterator yields the first entry and its probe is sent
TickStart ==
  /\ NoneSettled
  /\ ~tick.active
  /\ connectors # <<>>
  /\ tick' = [active |-> TRUE, id |-> connectors[1].id, inst |-> connectors[1].inst,
              todo |-> [i \in 1..(Len(connectors) - 1) |-> connectors[i + 1].id],
              stable |-> {connectors[i].id : i \in 1..Len(connectors)},
              probed |-> [id \in Ids |-> "none"],
              events |-> [id \in Ids |-> "none"]]
  /\ UNCHANGED <<connectors, healthChecks, objs, tasks, removed, started, pf>>

\* performHealthCheck has returned: record it, then probe the next entry
TickProbe ==
  /\ NoneSettled
  /\ tick.active
  /\ \E r \in NetOutcomes :
       /\ objs' = [objs EXCEPT ![tick.inst].status =
                     IF r = "ok" THEN @ ELSE interceptResponseError(@, r)]
       /\ healthChecks' = [healthChecks EXCEPT ![tick.id] = healthRecord(performHealthCheck(r))]
       /\ tick' = IF tick.todo = <<>>
                  THEN [NoTick EXCEPT !.stable = tick.stable,
                                      !.probed = [tick.probed EXCEPT ![tick.id] = r],
                                      !.events = [tick.events EXCEPT ![tick.id] =
                                                    healthEvent(performHealthCheck(r))]]
                  ELSE [tick EXCEPT !.id = Head(tick.todo),
                                    !.inst = get(connectors, Head(tick.todo)),
                                    !.todo = Tail(tick.todo),
                                    !.probed[tick.id] = r,
                                    !.events[tick.id] = healthEvent(performHealthCheck(r))]
  /\ UNCHANGED <<connectors, tasks, removed, started, pf>>

(***************************************************************************)
(* The manager after construction, and its behaviours.                     *)
(***************************************************************************)
NoPf == [kind |-> "none"]

InitManager ==
  /\ connectors = <<>>
  /\ healthChecks = [id \in Ids |-> "none"]
  /\ objs = [i \in Insts |-> NoObj]
  /\ tasks = [t \in Slots |-> Idle]
  /\ tick = NoTick
  /\ removed = {}
  /\ started = 0

Init == InitManager /\ pf = NoPf

\* the steps of a manager whose callers use the slots S and offer the ids I, the
\* configurations C and the params objects P
Step(S, I, C, P) ==
  \/ \E t \in S, id \in I, c \in C : RegisterStart(t, id, c)
  \/ \E t \in S : RegComplLog(t)
  \/ \E t \in S : RegComplCatchLog(t)
  \/ \E t \in S : RegTest(t)
  \/ \E t \in S : RegLog(t)
  \/ \E t \in S : CatchLog(t)
  \/ \E t \in S, id \in I : UnregisterStart(t, id)
  \/ \E t \in S : UnregisterDelete(t)
  \/ \E t \in S : UnregisterLog(t)
  \/ \E t \in S, id \in I, p \in P : ExecStart(t, id, p)
  \/ \E t \in S : ExecProbe(t)
  \/ \E t \in S : ExecAudit(t)
  \/ \E t \in S : ExecPost(t)
  \/ \E t \in S : ExecLog(t)
  \/ \E t \in S, id \in I : GetConnectorStatus(t, id)
  \/ \E t \in S : ListConnectors(t)
  \/ \E t \in S : Return(t)
  \/ TickStart
  \/ TickProbe

\* calls made one after another, concurrent with the health-check timer
Next == Step({1}, Ids, CfgIdx, PayloadIdx)

Spec == Init /\ [][Next]_vars

\* overlapping calls, concurrent with the health-check timer
ConcIds == {1}
ConcConfigs == {1, 3}
ConcPayloads == {1, 3}

NextConcurrent == Step(Slots, ConcIds, ConcConfigs, ConcPayloads)

SpecConcurrent == Init /\ [][NextConcurrent]_vars

\* registrations only, one after another
NextRegister ==
  \/ \E id \in Ids, c \in CfgIdx : RegisterStart(1, id, c)
  \/ RegComplLog(1)
  \/ RegComplCatchLog(1)
  \/ RegTest(1)
  \/ RegLog(1)
  \/ CatchLog(1)
  \/ Return(1)

SpecRegister == Init /\ [][NextRegister]_vars

(***************************************************************************)
(* The validator on its own: one input is drawn, then the function is      *)
(* applied to it.                                                          *)
(***************************************************************************)
Severities == {"HIGH", "MEDIUM", "LOW"}

SeqsUpTo(S, n) == UNION {[1..k -> S] : k \in 0..n}

\* findings lists handed to determineOverallCompliance
ViolationLists ==
  {[i \in DOMAIN sv |-> Violation("RULE", sv[i], "GENERAL")] : sv \in SeqsUpTo(Severities, MaxViol)}

WarningLists ==
  {[i \in DOMAIN sv |-> Violation("NOTE", sv[i], "GENERAL")] : sv \in SeqsUpTo(Severities, 1)}

PayloadKeys == {S_patientData, S_phi, S_diagnosis, S_query, S_Name}

PayloadValues == {StrV(S_flu), StrV(<<>>), NumV(0), ObjV(<<<<S_MRN, S_flu>>>>)}

PayloadFields == {[k |-> k, v |-> v] : k \in PayloadKeys, v \in PayloadValues}

\* objects of at most MaxFields properties (property names are distinct)
Payloads ==
  {d \in SeqsUpTo(PayloadFields, MaxFields) :
     \A i \in DOMAIN d, j \in DOMAIN d : d[i].k = d[j].k => i = j}

ValidatorConfigs ==
  {[type |-> ty, endpoint |-> e, auth |-> a, hc |-> h, encryptSensitiveData |-> FALSE,
    arabic |-> ar, saudi |-> sa, retryAttempts |-> ra, timeoutMs |-> 30000] :
     ty \in {"ehr", "audit_system"}, e \in {E_real, E_http, <<>>},
     a \in {"missing", "bearer", "apikey", "basic"}, h \in HCs,
     ar \in BOOLEAN, sa \in BOOLEAN, ra \in {3, 6}}

DataConfigs ==
  {Config("ehr", E_real, a, h, FALSE) :
     a \in {"missing", "notype", "bearer", "apikey"},
     h \in {NoHC} \cup {HC(TRUE, TRUE, FALSE, e, au) : e \in BOOLEAN, au \in BOOLEAN}}

FrameworkLists == {<<"HIPAA", "NPHIES">>, <<"HIPAA">>, <<"NPHIES">>, <<"GDPR">>}

ValidatorInputs ==
  {[kind |-> "config", done |-> FALSE, config |-> c, frameworks |-> f, strict |-> o] :
     c \in ValidatorConfigs, f \in FrameworkLists, o \in BOOLEAN}
  \cup {[kind |-> "determine", done |-> FALSE, violations |-> v, warnings |-> w, strict |-> o] :
          v \in ViolationLists, w \in WarningLists, o \in BOOLEAN}
  \cup {[kind |-> "data", done |-> FALSE, data |-> d, config |-> c] :
          d \in Payloads, c \in DataConfigs}

InitValidator == InitManager /\ pf \in ValidatorInputs

Frame == UNCHANGED <<connectors, healthChecks, objs, tasks, tick, removed, started>>

\* new HealthcareComplianceValidator({strictMode}).validateConnectorCompliance(config)
ApplyValidateConnectorCompliance ==
  /\ pf.kind = "config" /\ ~pf.done
  /\ pf' = [kind |-> "config", done |-> TRUE, config |-> pf.config,
            frameworks |-> pf.frameworks, strict |-> pf.strict,
            out |-> validateConnectorCompliance(pf.config, pf.frameworks,
                                                validatorStrictMode(pf.strict))]
  /\ Frame

\* determineOverallCompliance of a validator whose strictMode is given, applied to the
\* findings (out) and to the same findings with the warnings taken away (bare); of a
\* validator constructed with that strictMode option (configured), and of the
\* validator of a manager constructed with that strictCompliance option (managed)
ApplyDetermineOverallCompliance ==
  /\ pf.kind = "determine" /\ ~pf.done
  /\ pf' = [kind |-> "determine", done |-> TRUE, violations |-> pf.violations,
            warnings |-> pf.warnings, strict |-> pf.strict,
            out |-> determineOverallCompliance(
                      [violations |-> pf.violations, warnings |-> pf.warnings], pf.strict),
            bare |-> determineOverallCompliance(
                       [violations |-> pf.violations, warnings |-> <<>>], pf.strict),
            configured |-> determineOverallCompliance(
                             [violations |-> pf.violations, warnings |-> pf.warnings],
                             validatorStrictMode(pf.strict)),
            managed |-> determineOverallCompliance(
                          [violations |-> pf.violations, warnings |-> pf.warnings],
                          validatorStrictMode(managerStrictMode(pf.strict)))]
  /\ Frame

\* validateDataTransmission(data, connectorConfig)
ApplyValidateDataTransmission ==
  /\ pf.kind = "data" /\ ~pf.done
  /\ pf' = [kind |-> "data", done |-> TRUE, data |-> pf.data, config |-> pf.config,
            out |-> validateDataTransmission(pf.data, pf.config, complianceLevel)]
  /\ Frame

NextValidator ==
  \/ ApplyValidateConnectorCompliance
  \/ ApplyDetermineOverallCompliance
  \/ ApplyValidateDataTransmission

SpecValidator == InitValidator /\ [][NextValidator]_vars

(***************************************************************************)
(* The metrics of one connector on its own: a freshly registered connector *)
(* and the latencies of the successful calls made on it one after another. *)
(***************************************************************************)
LatencyLists == UNION {[1..n -> 0..MaxLatency] : n \in 1..MaxCalls}

MetricsInputs ==
  {[kind |-> "metrics", latencies |-> l, calls |-> 0,
    connector |-> [NewConnector(1) EXCEPT !.status = "connected"]] : l \in LatencyLists}

InitMetrics == InitManager /\ pf \in MetricsInputs

\* one executeCall that succeeds after pf.latencies[pf.calls + 1] milliseconds
ApplySuccessfulCall ==
  /\ pf.kind = "metrics" /\ pf.calls < Len(pf.latencies)
  /\ pf' = [pf EXCEPT !.calls = @ + 1,
                      !.connector = recordSuccess(recordAttempt(@), pf.latencies[pf.calls + 1])]
  /\ Frame

NextMetrics == ApplySuccessfulCall

SpecMetrics == InitMetrics /\ [][NextMetrics]_vars

(***************************************************************************)
(* Properties.                                                             *)
(***************************************************************************)
Settled(t, op) == tasks[t].pc = "done" /\ tasks[t].op = op

hasKey(d, k) == \E i \in DOMAIN d : d[i].k = k

\* the JSON text of data, lowercased, contains a PHI indicator word
mentionsPHI(data) ==
  \E j \in DOMAIN phiIndicators : includes(toLowerCase(stringify(data)), phiIndicators[j])

hasHigh(list) == \E i \in DOMAIN list : list[i].severity = "HIGH"

\* C1: whenever registerConnector rejects, at whatever step, the call has written
\* nothing to the registry, and an id that was absent before the call is absent
\* afterwards.
C1_RejectedRegisterLeavesRegistry ==
  \A t \in Slots :
    (Settled(t, "register") /\ ~tasks[t].ok) =>
      /\ ~tasks[t].wrote
      /\ tasks[t].absent => ~has(connectors, tasks[t].id)

\* C2: executeRemoteCall whose params yield a HIGH data-time violation rejects with
\* the compliance-violation error, and executeCall was not invoked: nothing was
\* dispatched and no metric was counted.
C2_HighDataViolationRejectsCall ==
  \A t \in Slots :
    (/\ Settled(t, "execute") /\ tasks[t].inst # 0
     /\ hasHigh(dataVerdict[objs[tasks[t].inst].c][tasks[t].p].violations)) =>
      /\ ~tasks[t].ok
      /\ tasks[t].err = "compliance"
      /\ ~tasks[t].called /\ ~tasks[t].sent

\* what holds of the data-time gate whatever the audit sink does: the gate throws the
\* compliance-violation error and executeCall is not invoked
DataGateThrowsBeforeCall ==
  \A t \in Slots :
    (/\ tasks[t].op = "execute" /\ tasks[t].inst # 0
     /\ tasks[t].pc \in {"catch_log", "done"}
     /\ hasHigh(dataVerdict[objs[tasks[t].inst].c][tasks[t].p].violations)) =>
      /\ ~tasks[t].ok
      /\ tasks[t].cause = "compliance"
      /\ ~tasks[t].called /\ ~tasks[t].sent

\* C3: data whose JSON text contains a PHI indicator (a property named diagnosis,
\* say) is classified containsPHI and gets encryptionRequired and auditRequired
\* TRUE whatever the connector configuration says; for data without PHI the two
\* flags are the configuration's healthcareCompliance flags, FALSE when absent.
C3_PHIForcesEncryptionAndAudit ==
  (pf.kind = "data" /\ pf.done) =>
    LET phi == mentionsPHI(pf.data)
    IN /\ hasKey(pf.data, S_diagnosis) => phi
       /\ phi => /\ pf.out.dataClassification.containsPHI
                 /\ pf.out.encryptionRequired
                 /\ pf.out.auditRequired
       /\ ~phi => /\ pf.out.encryptionRequired
                       = (pf.config.hc.present /\ pf.config.hc.encryptionRequired)
                  /\ pf.out.auditRequired
                       = (pf.config.hc.present /\ pf.config.hc.auditRequired)

C3_Witness ==
  /\ pf.kind = "data" /\ pf.done
  /\ hasKey(pf.data, S_diagnosis)
  /\ pf.config.hc.present
  /\ ~pf.config.hc.encryptionRequired /\ ~pf.config.hc.auditRequired
  /\ pf.out.encryptionRequired /\ pf.out.auditRequired

\* C4: the overall verdict is NON_COMPLIANT when a HIGH violation was found and
\* COMPLIANT when no violation was found; the warnings do not change the verdict.
C4_VerdictFromViolationsOnly ==
  /\ (pf.kind = "config" /\ pf.done) =>
       /\ hasHigh(pf.out.violations) => pf.out.overall = "NON_COMPLIANT"
       /\ pf.out.violations = <<>> => pf.out.overall = "COMPLIANT"
  /\ (pf.kind = "determine" /\ pf.done) =>
       /\ hasHigh(pf.violations) => pf.out = "NON_COMPLIANT"
       /\ pf.violations = <<>> => pf.out = "COMPLIANT"
       /\ pf.out = pf.bare

C4_Witness ==
  /\ pf.kind = "config" /\ pf.done
  /\ pf.out.violations = <<>>
  /\ pf.out.warnings # <<>>
  /\ pf.out.overall = "COMPLIANT"

\* C5: registering the configuration with hipaa true and encryptionRequired false
\* (bearer, https) fails with the HIGH HIPAA_ENCRYPTION violation; any registration
\* whose configuration has a HIGH config-time violation rejects with the compliance
\* error, no connector having been constructed and no testConnection run.
C5_HighConfigViolationAbortsRegistration ==
  /\ \A c \in CfgIdx :
       (/\ RegConfigs[c].hc.present /\ RegConfigs[c].hc.hipaa
        /\ ~RegConfigs[c].hc.encryptionRequired) =>
         \E i \in DOMAIN configVerdict[c].violations :
           configVerdict[c].violations[i] = Violation("HIPAA_ENCRYPTION", "HIGH", "HIPAA")
  /\ \A t \in Slots :
       (/\ Settled(t, "register") /\ tasks[t].validated
        /\ hasHigh(configVerdict[tasks[t].c].violations)) =>
         /\ ~tasks[t].ok
         /\ tasks[t].err = "compliance"
         /\ ~tasks[t].constructed /\ ~tasks[t].tested

\* what holds of the config-time gate whatever the audit sink does: no connector is
\* constructed and testConnection does not run for a configuration with a HIGH
\* violation, and the call does not succeed
ConfigGateBeforeConstruction ==
  \A t \in Slots :
    (tasks[t].op = "register" /\ hasHigh(configVerdict[tasks[t].c].violations)) =>
      /\ ~tasks[t].ok
      /\ ~tasks[t].constructed /\ ~tasks[t].tested /\ ~tasks[t].wrote
      /\ tasks[t].cause \in {"none", "validation", "compliance", "audit"}

\* C6: registerConnector given a configuration that lacks type, endpoint,
\* authentication or healthcareCompliance, or whose endpoint does not parse as a
\* URL, rejects; compliance validation has not run, no connector was constructed
\* and no request was made.
C6_MalformedConfigRejectedFirst ==
  \A t \in Slots :
    LET cfg == RegConfigs[tasks[t].c]
    IN (/\ tasks[t].op = "register"
        /\ \/ cfg.type = "" \/ cfg.endpoint = <<>> \/ cfg.auth = "missing"
           \/ ~cfg.hc.present \/ ~URLParses(cfg.endpoint)) =>
         /\ tasks[t].pc \in {"catch_log", "done"}
         /\ ~tasks[t].ok
         /\ ~tasks[t].validated /\ ~tasks[t].constructed /\ ~tasks[t].tested
         /\ ~tasks[t].net /\ ~tasks[t].wrote

C6_Witness ==
  \E t \in Slots :
    /\ Settled(t, "register") /\ ~tasks[t].ok
    /\ RegConfigs[tasks[t].c].endpoint = E_notUrl
    /\ ~tasks[t].validated /\ ~tasks[t].net

\* C7: unregisterConnector, executeRemoteCall and getConnectorStatus called with an
\* id that is not registered fail with the not-found error, having written nothing
\* to the registry, the health records or any connector.
C7_UnknownIdIsNotFound ==
  \A t \in Slots :
    (/\ tasks[t].pc = "done" /\ tasks[t].op \in {"unregister", "execute", "status"}
     /\ tasks[t].absent) =>
      /\ ~tasks[t].ok
      /\ tasks[t].err = "notfound"
      /\ ~tasks[t].wrote /\ ~tasks[t].called /\ ~tasks[t].net

\* what holds of the lookups whatever the audit sink does: a call with an unknown id
\* throws the not-found error and writes nothing
UnknownIdThrowsNotFound ==
  \A t \in Slots :
    (/\ tasks[t].op \in {"unregister", "execute", "status"} /\ tasks[t].absent) =>
      /\ tasks[t].pc \in {"catch_log", "done"}
      /\ ~tasks[t].ok
      /\ tasks[t].cause = "notfound"
      /\ ~tasks[t].wrote /\ ~tasks[t].called /\ ~tasks[t].net

\* C8: every id that has a health record is a registered id.
C8_HealthRecordsOfRegisteredIds ==
  \A id \in Ids : healthChecks[id] # "none" => has(connectors, id)

\* C9: once unregisterConnector has completed, no step writes a field of the
\* connector it removed.
C9_RemovedConnectorNotWritten ==
  [][\A i \in removed : objs'[i] = objs[i]]_vars

\* C10: a request dispatched by a connector with encryptSensitiveData carries every
\* patientData, phi and personalInfo property of params as an encrypted blob, every
\* other property as it was, and the caller's params object is as it was.
C10_SensitiveFieldsDispatchedEncrypted ==
  \A t \in Slots :
    (/\ tasks[t].pc = "exec_post"
     /\ RegConfigs[objs[tasks[t].inst].c].encryptSensitiveData) =>
      LET params == ExecPayloads[tasks[t].p]
          req    == tasks[t].req
      IN /\ Len(req) = Len(params)
         /\ \A i \in DOMAIN params :
              /\ req[i].k = params[i].k
              /\ isSensitiveField(params[i].k) => req[i].v.kind = "blob"
              /\ ~isSensitiveField(params[i].k) => req[i].v = params[i].v
         /\ tasks[t].intact

\* what holds of the dispatched request: a sensitive property whose value is truthy
\* is an encrypted blob, every other property is as it was, params is as it was
TruthySensitiveFieldsEncrypted ==
  \A t \in Slots :
    (/\ tasks[t].pc = "exec_post"
     /\ RegConfigs[objs[tasks[t].inst].c].encryptSensitiveData) =>
      LET params == ExecPayloads[tasks[t].p]
          req    == tasks[t].req
      IN /\ Len(req) = Len(params)
         /\ \A i \in DOMAIN params :
              /\ req[i].k = params[i].k
              /\ (isSensitiveField(params[i].k) /\ Truthy(params[i].v)) =>
                   (req[i].v.kind = "blob" /\ req[i].v.s = stringifyValue(params[i].v))
              /\ ~(isSensitiveField(params[i].k) /\ Truthy(params[i].v)) =>
                   req[i].v = params[i].v
         /\ tasks[t].intact

\* the executeCall invocations in flight on the connector object i
inFlight(i) ==
  {t \in Slots : tasks[t].inst = i /\ tasks[t].pc \in {"exec_audit", "exec_post"}}

\* C11: on every connector callsTotal = callsSuccessful + callsFailed + the number of
\* executeCall invocations in flight on it, and a request is dispatched only after
\* callsTotal has counted the call.
C11_TotalIsOutcomesPlusInFlight ==
  /\ \A i \in Insts :
       objs[i].callsTotal
         = objs[i].callsSuccessful + objs[i].callsFailed + Cardinality(inFlight(i))
  /\ \A t \in Slots : tasks[t].sent => objs[tasks[t].inst].callsTotal >= 1

C11_Witness ==
  \E i \in Insts :
    /\ objs[i].callsTotal = 2
    /\ objs[i].callsFailed = 1
    /\ Cardinality(inFlight(i)) = 1

RECURSIVE SumSeq(_)
SumSeq(l) == IF l = <<>> THEN 0 ELSE Head(l) + SumSeq(Tail(l))

\* C12: after n successful calls made one after another on a freshly registered
\* connector, with latencies t_1..t_n, averageResponseTime is (t_1 + ... + t_n) / n
\* and lastResponseTime is t_n.
C12_AverageIsMeanOfLatencies ==
  (pf.kind = "metrics" /\ pf.calls >= 1) =>
    LET n   == pf.calls
        avg == pf.connector.averageResponseTime
    IN /\ avg.num * n = SumSeq(SubSeq(pf.latencies, 1, n)) * avg.den
       /\ pf.connector.lastResponseTime = pf.latencies[n]
       /\ pf.connector.callsTotal = n /\ pf.connector.callsSuccessful = n
       /\ pf.connector.callsFailed = 0

C12_Witness ==
  /\ pf.kind = "metrics" /\ pf.calls = 3
  /\ pf.latencies = <<3, 0, 1>>
  /\ pf.connector.averageResponseTime = [num |-> 4, den |-> 3]
  /\ pf.connector.lastResponseTime = 1

Statuses == {"disconnected", "connecting", "connected", "unauthorized", "error"}

\* connector.disconnect() runs on the object i in this step
disconnectCalled(i) ==
  \E t \in Slots :
    /\ tasks[t].pc = "idle" /\ tasks'[t].pc = "unreg_delete"
    /\ tasks'[t].inst = i

\* the status of the object i changes as the state machine allows
specifiedTransition(i) ==
  LET from == objs[i].status
      to   == objs'[i].status
  IN \/ from = to
     \/ from = "disconnected" /\ to \in {"connected", "error"}
     \/ from = "connected" /\ to \in {"unauthorized", "disconnected"}
     \/ to = "disconnected" /\ disconnectCalled(i)

\* C13: the status of every connector is one of the five values and changes only
\* by the specified transitions: disconnected -> connected or error (testConnection),
\* connected -> unauthorized (401), connected -> disconnected (transport refused),
\* any -> disconnected (disconnect()).
C13_StatusFollowsStateMachine ==
  [][\A i \in Insts : objs'[i].status \in Statuses /\ specifiedTransition(i)]_vars

\* what holds of the status: it is always one of the five values, and disconnected
\* before the connector is constructed
StatusInRange ==
  /\ \A i \in Insts : objs[i].status \in Statuses
  /\ \A i \in Insts : ~objs[i].used => objs[i].status = "disconnected"

\* C14: a failing probe is a result, not an exception: every connector that stays
\* registered throughout a run of the timer callback has, once its probe has ended,
\* the health record of its own probe (healthy for a 2xx answer, unhealthy
\* otherwise), and when the run ends every such connector has been probed.
C14_EveryConnectorGetsItsOwnRecord ==
  /\ \A id \in tick.stable :
       tick.probed[id] # "none" =>
         healthChecks[id] = (IF tick.probed[id] = "ok" THEN "healthy" ELSE "unhealthy")
  /\ ~tick.active => \A id \in tick.stable : tick.probed[id] # "none"

C14_Witness ==
  /\ ~tick.active
  /\ Len(connectors) = 2
  /\ tick.stable = {connectors[1].id, connectors[2].id}
  /\ tick.probed[connectors[1].id] = "refused"
  /\ tick.probed[connectors[2].id] = "ok"
  /\ healthChecks[connectors[1].id] = "unhealthy"
  /\ healthChecks[connectors[2].id] = "healthy"

\* C15: a rejection of the audit sink never changes the outcome of registerConnector,
\* unregisterConnector or executeRemoteCall: a call that has got through its
\* validations and done its work (stored the connector, deleted the entry, counted
\* the remote call as successful) succeeds, whatever the sink did.
C15_SinkFailureNeverFailsCall ==
  \A t \in Slots :
    (/\ tasks[t].pc = "done"
     /\ \/ tasks[t].op \in {"register", "unregister"} /\ tasks[t].wrote
        \/ tasks[t].op = "execute" /\ tasks[t].called /\ tasks[t].cause # "remote") =>
      tasks[t].ok
(***************************************************************************)
(* AuditLogger (src/brainsait_mcp_server.js): logAccess posts the entry to *)
(* the audit endpoint with a 5 s timeout, inside try/catch.  axios rejects *)
(* on a status outside 2xx, on a network error and on the timeout.         *)
(***************************************************************************)
MaxAuditCalls == 3

AuditSlots == 1..2

DeliveryOutcomes == {"2xx", "5xx", "network", "timeout"}

AccessOutcomes == {"SUCCESS", "FAILURE"}

postRejects(r) == r # "2xx"

\* a faulty logAccess: the catch block logs and rethrows
logAccess_rethrows(r) ==
  [settled |-> IF postRejects(r) THEN "rejected" ELSE "resolved", logged |-> postRejects(r)]

\* logAccess once axios.post has ended with r: the catch block writes to
\* console.error and falls through to the end of the function
logAccess(r) == [settled |-> "resolved", logged |-> postRejects(r)]

NoAuditCall == [pc |-> "idle", outcome |-> "none", r |-> "none"]

InitAudit ==
  /\ InitManager
  /\ pf = [kind |-> "audit", calls |-> [s \in AuditSlots |-> NoAuditCall],
           posted |-> 0, consoleErrors |-> 0]

\* logAccess up to its await: the entry is built and the POST is sent
LogAccessStart(s, outcome) ==
  /\ pf.kind = "audit" /\ pf.posted < MaxAuditCalls
  /\ pf.calls[s].pc = "idle"
  /\ pf' = [pf EXCEPT !.calls[s] = [pc |-> "posting", outcome |-> outcome, r |-> "none"],
                      !.posted = @ + 1]
  /\ Frame

\* the POST has ended
LogAccessSettle(s) ==
  /\ pf.kind = "audit"
  /\ pf.calls[s].pc = "posting"
  /\ \E r \in DeliveryOutcomes :
       pf' = [pf EXCEPT !.calls[s].pc = logAccess(r).settled,
                        !.calls[s].r = r,
                        !.consoleErrors = IF logAccess(r).logged THEN @ + 1 ELSE @]
  /\ Frame

\* the caller takes the settled promise
LogAccessReturn(s) ==
  /\ pf.kind = "audit"
  /\ pf.calls[s].pc \in {"resolved", "rejected"}
  /\ pf' = [pf EXCEPT !.calls[s] = NoAuditCall]
  /\ Frame

NextAudit ==
  \E s \in AuditSlots :
    \/ \E outcome \in AccessOutcomes : LogAccessStart(s, outcome)
    \/ LogAccessSettle(s)
    \/ LogAccessReturn(s)

SpecAudit == InitAudit /\ [][NextAudit]_vars

\* C16: AuditLogger.logAccess always resolves: when the delivery of the entry fails
\* (error status, network error or timeout) the failure is written to the local
\* console, once per failed delivery, and the call still resolves.
C16_LogAccessAlwaysResolves ==
  /\ \A s \in AuditSlots :
       /\ pf.calls[s].pc \in {"idle", "posting", "resolved"}
       /\ pf.calls[s].pc = "resolved" /\ postRejects(pf.calls[s].r) => pf.consoleErrors >= 1
  /\ pf.consoleErrors <= pf.posted

\* a delivery that timed out, was logged locally, and whose call resolved
C16_Witness ==
  \E s \in AuditSlots :
    /\ pf.calls[s].pc = "resolved"
    /\ pf.calls[s].r = "timeout"
    /\ pf.consoleErrors >= 1

\* C17: the configuration returned by getConnectorStatus and by listConnectors never
\* holds the connector's authentication, for every registered connector in every
\* state, and the config object the connector keeps still holds the authentication
\* it was registered with.
C17_ProjectionHidesAuthentication ==
  /\ \A t \in Slots :
       tasks[t].pc = "done" /\ tasks[t].op \in {"status", "list"} =>
         \A k \in 1..Len(tasks[t].conf) : tasks[t].conf[k].auth = "missing"
  /\ \A k \in 1..Len(connectors) :
       LET connector == objs[connectors[k].inst]
       IN /\ storedConfig(connector).auth # "missing"
          /\ storedConfig(connector) = RegConfigs[connector.c]

\* listConnectors has returned the configurations of two registered connectors
C17_Witness ==
  \E t \in Slots :
    /\ tasks[t].pc = "done" /\ tasks[t].op = "list" /\ tasks[t].ok
    /\ Len(tasks[t].conf) = 2
    /\ \A k \in 1..2 : objs[connectors[k].inst].auth \in {"bearer", "apikey"}

(***************************************************************************)
(* ConnectorConfigManager: one JSON file <connectorId>.json per stored     *)
(* configuration in configDir, holding the blob ConfigEncryption made of   *)
(* the sanitized configuration.  A configuration object is a function from *)
(* its own keys to their values; a blob is the symbolic AES-256-GCM        *)
(* encryption of its plaintext under a key and an iv.                      *)
(***************************************************************************)
MaxStoreOps == 4

\* connector ids; each names a file of its own
StoreIds == {"a", "b"}

StoreIvs == 1..MaxIv

storeKey == "k"

requiredFields == <<"type", "name", "endpoint", "authentication", "healthcareCompliance">>

acceptedAuthTypes == {"bearer", "apikey", "oauth2", "basic"}

metadataFields == {"createdAt", "updatedAt", "complianceLevel", "version"}

\* {...obj, [k]: v}
setKey(obj, k, v) == (k :> v) @@ obj

\* !config[field]: the key is absent or its value is the empty string
fieldMissing(config, field) ==
  \/ field \notin DOMAIN config
  \/ field \in {"type", "name"} /\ config[field] = ""
  \/ field = "endpoint" /\ config[field] = <<>>

\* a faulty validateConfiguration: any authentication type is accepted
validateConfiguration_anyAuthType(config) ==
  IF \E n \in 1..Len(requiredFields) : fieldMissing(config, requiredFields[n])
    THEN "missing"
  ELSE IF ~URLParses(config.endpoint) THEN "endpoint"
  ELSE IF ~config.healthcareCompliance.hipaa /\ ~config.healthcareCompliance.nphies
    THEN "compliance"
  ELSE "ok"

\* validateConfiguration: "ok", or the reason of the error it throws
validateConfiguration(config) ==
  IF \E n \in 1..Len(requiredFields) : fieldMissing(config, requiredFields[n])
    THEN "missing"
  ELSE IF ~URLParses(config.endpoint) THEN "endpoint"
  ELSE IF ~config.healthcareCompliance.hipaa /\ ~config.healthcareCompliance.nphies
    THEN "compliance"
  ELSE IF config.authentication.type \notin acceptedAuthTypes THEN "authtype"
  ELSE "ok"

\* sanitizeConfig at time now: the JSON copy of the configuration with the metadata
sanitizeConfig(config, now) ==
  LET createdAt == IF "createdAt" \in DOMAIN config /\ config.createdAt # 0
                   THEN config.createdAt ELSE now
      meta == [createdAt |-> createdAt, updatedAt |-> now,
               complianceLevel |-> "HIPAA,NPHIES", version |-> "1.0.0"]
      withMeta == meta @@ config
  IN IF "authentication" \in DOMAIN config
     THEN setKey(withMeta, "authentication", setKey(config.authentication, "encrypted", TRUE))
     ELSE withMeta

\* the tag lengths, in bytes, that decipher.setAuthTag takes when createDecipheriv
\* was given no authTagLength
validTagLengths == {4, 8, 12, 13, 14, 15, 16}

\* ConfigEncryption.encrypt: the authentication tag binds key, iv and plaintext
configEncrypt(config, key, iv, now) ==
  [plaintext |-> config, key |-> key, iv |-> iv, tagOk |-> TRUE, tagLen |-> 16,
   encryptedAt |-> now]

\* ConfigEncryption.decrypt: decipher.final throws unless the tag verifies
configDecrypt(blob, key) ==
  IF blob.key = key /\ blob.tagOk /\ blob.tagLen \in validTagLengths
  THEN [ok |-> TRUE, config |-> blob.plaintext]
  ELSE [ok |-> FALSE, config |-> [absent |-> TRUE]]

NoFile == [kind |-> "none"]

NoConfig == [absent |-> TRUE]

\* what a call has done and how it settled
StoreResult(op, id) ==
  [op |-> op, id |-> id, ok |-> FALSE, err |-> "none", config |-> NoConfig,
   encrypted |-> FALSE, wrote |-> FALSE, input |-> NoConfig, configs |-> <<>>,
   totalCount |-> 0, backupDir |-> 0]

\* saveConfig: validate, sanitize, encrypt, writeFile
saveConfig(files, op, id, config, now, iv) ==
  LET verdict == validateConfiguration(config)
      res     == [StoreResult(op, id) EXCEPT !.input = config]
  IN IF verdict # "ok"
     THEN [files |-> files, res |-> [res EXCEPT !.err = verdict]]
     ELSE [files |-> [files EXCEPT ![id] =
                        [kind |-> "json", mtime |-> now,
                         blob |-> configEncrypt(sanitizeConfig(config, now), storeKey, iv, now)]],
           res   |-> [res EXCEPT !.ok = TRUE, !.encrypted = TRUE, !.wrote = TRUE]]

\* loadConfig: access, readFile, JSON.parse, decrypt
loadConfig(files, id) ==
  LET res == StoreResult("load", id)
      file == files[id]
  IN IF file.kind = "none" THEN [res EXCEPT !.err = "notfound"]
     ELSE IF file.kind # "json" THEN [res EXCEPT !.err = "parse"]
     ELSE IF ~configDecrypt(file.blob, storeKey).ok THEN [res EXCEPT !.err = "integrity"]
     ELSE [res EXCEPT !.ok = TRUE, !.config = configDecrypt(file.blob, storeKey).config]

\* {...existingConfig, ...updates, updatedAt: now}
mergeUpdates(existingConfig, updates, now) ==
  setKey(updates @@ existingConfig, "updatedAt", now)

\* updateConfig: loadConfig, merge, saveConfig
updateConfig(files, id, updates, now, iv) ==
  LET loaded == loadConfig(files, id)
  IN IF ~loaded.ok
     THEN [files |-> files, res |-> [StoreResult("update", id) EXCEPT !.err = loaded.err]]
     ELSE saveConfig(files, "update", id, mergeUpdates(loaded.config, updates, now), now, iv)

\* a faulty deleteConfig: it reports success and leaves the file
deleteConfig_keepsFile(files, id) ==
  IF files[id].kind = "none"
  THEN [files |-> files, res |-> [StoreResult("delete", id) EXCEPT !.err = "notfound"]]
  ELSE [files |-> files, res |-> [StoreResult("delete", id) EXCEPT !.ok = TRUE]]

\* deleteConfig: access, unlink
deleteConfig(files, id) ==
  IF files[id].kind = "none"
  THEN [files |-> files, res |-> [StoreResult("delete", id) EXCEPT !.err = "notfound"]]
  ELSE [files |-> [files EXCEPT ![id] = NoFile],
        res   |-> [StoreResult("delete", id) EXCEPT !.ok = TRUE, !.wrote = TRUE]]

\* readdir, in the order of the names
storeIdOrder == <<"a", "b">>

\* one entry of listConfigs: the summary of a record that loads, the flagged entry
\* of one that does not
listEntry(files, id) ==
  LET loaded == loadConfig(files, id)
  IN IF loaded.ok
     THEN [connectorId |-> id, type |-> loaded.config.type, name |-> loaded.config.name,
           endpoint |-> loaded.config.endpoint,
           healthcareCompliance |-> loaded.config.healthcareCompliance,
           lastModified |-> files[id].mtime]
     ELSE [connectorId |-> id, error |-> loaded.err, status |-> "invalid"]

storedIds(files) == SelectSeq(storeIdOrder, LAMBDA id : files[id].kind # "none")

\* a faulty listConfigs: the error of a record that does not load aborts the call
listConfigs_aborts(files) ==
  LET ids == storedIds(files)
  IN IF \E n \in 1..Len(ids) : ~loadConfig(files, ids[n]).ok
     THEN [StoreResult("list", "") EXCEPT !.err = "list"]
     ELSE [StoreResult("list", "") EXCEPT
             !.ok = TRUE, !.configs = [n \in 1..Len(ids) |-> listEntry(files, ids[n])],
             !.totalCount = Len(ids)]

\* listConfigs: one entry per *.json file of configDir
listConfigs(files) ==
  LET ids     == storedIds(files)
      configs == [n \in 1..Len(ids) |-> listEntry(files, ids[n])]
  IN [StoreResult("list", "") EXCEPT
        !.ok = TRUE, !.configs = configs, !.totalCount = Len(configs)]

Auth(type) == [type |-> type]

StoreConfig(type, name, endpoint, auth, hipaa, nphies) ==
  [type |-> type, name |-> name, endpoint |-> endpoint, authentication |-> Auth(auth),
   healthcareCompliance |-> [hipaa |-> hipaa, nphies |-> nphies]]

ValidStoreConfig == StoreConfig("ehr", "n1", E_real, "bearer", TRUE, FALSE)

\* drop one key of an object
without(obj, k) == [x \in DOMAIN obj \ {k} |-> obj[x]]

\* the configurations offered to saveConfig
StoreConfigs ==
  << ValidStoreConfig,
     StoreConfig("fhir", "n2", E_mockHost, "basic", FALSE, TRUE),
     without(ValidStoreConfig, "type"),
     StoreConfig("ehr", "", E_real, "bearer", TRUE, FALSE),
     without(ValidStoreConfig, "endpoint"),
     without(ValidStoreConfig, "authentication"),
     without(ValidStoreConfig, "healthcareCompliance"),
     StoreConfig("ehr", "n1", E_notUrl, "bearer", TRUE, FALSE),
     StoreConfig("ehr", "n1", E_real, "bearer", FALSE, FALSE),
     StoreConfig("ehr", "n1", E_real, "certificate", TRUE, FALSE),
     StoreConfig("ehr", "n1", E_real, "", TRUE, TRUE) >>

\* the partial configurations offered to updateConfig
StoreUpdates ==
  << [name |-> "n3"],
     [type |-> ""],
     [endpoint |-> E_notUrl],
     [authentication |-> Auth("certificate")],
     [healthcareCompliance |-> [hipaa |-> FALSE, nphies |-> FALSE]],
     [authentication |-> Auth("oauth2"), name |-> "n4"] >>

\* a timestamped directory under configDir/backups: absent, or holding copies
NoBackup == [exists |-> FALSE, files |-> [id \in StoreIds |-> NoFile]]

\* the timestamps of MaxStoreOps calls made from the millisecond 1 on
Timestamps == 1..(MaxStoreOps + 1)

\* backupConfigs in the millisecond now: mkdir(recursive) of backups/<now>, readdir,
\* copyFile of every *.json file of configDir into it
backupConfigs(files, backups, now) ==
  LET dir == backups[now]
      copied == [id \in StoreIds |->
                   IF files[id].kind # "none" THEN [files[id] EXCEPT !.mtime = now]
                   ELSE dir.files[id]]
  IN [files |-> files,
      backups |-> [backups EXCEPT ![now] = [exists |-> TRUE, files |-> copied]],
      res |-> [StoreResult("backup", "") EXCEPT
                 !.ok = TRUE, !.backupDir = now, !.totalCount = Len(storedIds(files))]]

\* files: the directory; before: the directory when the latest call started;
\* expected: per id, the configuration that the latest successful saveConfig was
\* given (by the caller, or by updateConfig after its merge); res: the latest call;
\* clock: the millisecond of the latest call (of the construction, at first);
\* backups: the directories under backups/; backupLog: per backupConfigs call that
\* returned, its directory and the files of configDir at the time
InitStore ==
  /\ InitManager
  /\ pf = [kind |-> "store", files |-> [id \in StoreIds |-> NoFile],
           before |-> [id \in StoreIds |-> NoFile],
           expected |-> [id \in StoreIds |-> NoConfig],
           res |-> StoreResult("none", ""), ops |-> 0, clock |-> 1,
           backups |-> [ts \in Timestamps |-> NoBackup], backupLog |-> <<>>]

\* one call, made dt milliseconds after the call before it
StoreCall(out, now) ==
  pf' = [pf EXCEPT !.files = out.files, !.before = pf.files, !.res = out.res,
                   !.ops = @ + 1, !.clock = now,
                   !.expected = IF out.res.op \in {"save", "update"} /\ out.res.ok
                                  THEN [@ EXCEPT ![out.res.id] = out.res.input]
                                ELSE IF out.res.op = "delete" /\ out.res.ok
                                  THEN [@ EXCEPT ![out.res.id] = NoConfig]
                                ELSE @,
                   !.backups = IF out.res.op = "backup" THEN out.backups ELSE @,
                   !.backupLog = IF out.res.op = "backup" /\ out.res.ok
                                   THEN Append(@, [dir |-> out.res.backupDir,
                                                   snapshot |-> pf.files])
                                 ELSE @]

SaveConfig(id, n, dt) ==
  /\ pf.kind = "store" /\ pf.ops < MaxStoreOps
  /\ \E iv \in StoreIvs :
       StoreCall(saveConfig(pf.files, "save", id, StoreConfigs[n], pf.clock + dt, iv),
                 pf.clock + dt)
  /\ Frame

UpdateConfig(id, n, dt) ==
  /\ pf.kind = "store" /\ pf.ops < MaxStoreOps
  /\ \E iv \in StoreIvs :
       StoreCall(updateConfig(pf.files, id, StoreUpdates[n], pf.clock + dt, iv),
                 pf.clock + dt)
  /\ Frame

DeleteConfig(id, dt) ==
  /\ pf.kind = "store" /\ pf.ops < MaxStoreOps
  /\ StoreCall(deleteConfig(pf.files, id), pf.clock + dt)
  /\ Frame

LoadConfig(id, dt) ==
  /\ pf.kind = "store" /\ pf.ops < MaxStoreOps
  /\ StoreCall([files |-> pf.files, res |-> loadConfig(pf.files, id)], pf.clock + dt)
  /\ Frame

ListConfigs(dt) ==
  /\ pf.kind = "store" /\ pf.ops < MaxStoreOps
  /\ StoreCall([files |-> pf.files, res |-> listConfigs(pf.files)], pf.clock + dt)
  /\ Frame

BackupConfigs(dt) ==
  /\ pf.kind = "store" /\ pf.ops < MaxStoreOps
  /\ StoreCall(backupConfigs(pf.files, pf.backups, pf.clock + dt), pf.clock + dt)
  /\ Frame

\* something other than the store alters a stored file: its text is no longer
\* JSON, its ciphertext or tag is changed, it holds a blob made under another key,
\* or its tag is cut to its first 4 bytes
Alterations == {"garbled", "tampered", "rekeyed", "truncated"}

AlterRecord(id, how) ==
  /\ pf.kind = "store"
  /\ pf.files[id].kind = "json"
  /\ pf.files[id].blob.key = storeKey /\ pf.files[id].blob.tagOk
  /\ pf.files[id].blob.tagLen = 16
  /\ pf' = [pf EXCEPT !.files[id] =
       IF how = "garbled" THEN [kind |-> "text", mtime |-> pf.files[id].mtime]
       ELSE IF how = "tampered" THEN [@ EXCEPT !.blob.tagOk = FALSE]
       ELSE IF how = "truncated" THEN [@ EXCEPT !.blob.tagLen = 4]
       ELSE [@ EXCEPT !.blob.key = "other"]]
  /\ Frame

\* calls made one after another, each in a later millisecond than the one before
NextStore ==
  \/ \E id \in StoreIds, n \in DOMAIN StoreConfigs : SaveConfig(id, n, 1)
  \/ \E id \in StoreIds, n \in DOMAIN StoreUpdates : UpdateConfig(id, n, 1)
  \/ \E id \in StoreIds : DeleteConfig(id, 1)
  \/ \E id \in StoreIds : LoadConfig(id, 1)
  \/ ListConfigs(1)

SpecStore == InitStore /\ [][NextStore]_vars

\* valid saves, one update, loads and listings of a directory whose files are altered
AlteredConfigs == {1}
AlteredUpdates == {1}

NextStoreAltered ==
  \/ \E id \in StoreIds, n \in AlteredConfigs : SaveConfig(id, n, 1)
  \/ \E id \in StoreIds, n \in AlteredUpdates : UpdateConfig(id, n, 1)
  \/ \E id \in StoreIds : LoadConfig(id, 1)
  \/ ListConfigs(1)
  \/ \E id \in StoreIds, how \in Alterations : AlterRecord(id, how)

SpecStoreAltered == InitStore /\ [][NextStoreAltered]_vars

\* the configuration lacks a required field, its endpoint is malformed, it sets
\* neither hipaa nor nphies, or its authentication type is not an accepted one
invalidConfiguration(config) ==
  \/ \E field \in {"type", "name", "endpoint", "authentication", "healthcareCompliance"} :
       fieldMissing(config, field)
  \/ ~URLParses(config.endpoint)
  \/ ~config.healthcareCompliance.hipaa /\ ~config.healthcareCompliance.nphies
  \/ config.authentication.type \notin {"bearer", "apikey", "oauth2", "basic"}

\* C18: saveConfig and updateConfig reject a configuration (for updateConfig: the
\* merged one) that lacks type, name, endpoint, authentication or
\* healthcareCompliance, has a malformed endpoint, sets neither hipaa nor nphies, or
\* has an authentication type outside bearer, apikey, oauth2, basic; the rejected
\* call has encrypted nothing and written nothing, and the directory is as before.
C18_InvalidConfigNeverStored ==
  pf.res.op \in {"save", "update"} /\ invalidConfiguration(pf.res.input) =>
    /\ ~pf.res.ok
    /\ ~pf.res.encrypted /\ ~pf.res.wrote
    /\ pf.files = pf.before

\* an update whose merged configuration has an authentication type that is not
\* accepted was rejected, and the record it was to replace is still stored
C18_Witness ==
  /\ pf.res.op = "update" /\ ~pf.res.ok
  /\ "authentication" \in DOMAIN pf.res.input
  /\ pf.res.input.authentication.type = "certificate"
  /\ pf.files[pf.res.id].kind = "json"
  /\ pf.files = pf.before

\* the loaded configuration is the saved one: the same keys and values, apart from
\* the metadata keys and the encrypted mark the store puts on the authentication
sameConfiguration(loaded, saved) ==
  /\ DOMAIN loaded \ metadataFields = DOMAIN saved \ metadataFields
  /\ \A k \in DOMAIN saved \ metadataFields :
       IF k = "authentication"
       THEN /\ "encrypted" \in DOMAIN loaded[k]
            /\ without(loaded[k], "encrypted") = without(saved[k], "encrypted")
       ELSE loaded[k] = saved[k]

\* C19: after any sequence of saveConfig, updateConfig and deleteConfig calls,
\* loadConfig(id) returns the configuration of the latest successful save or update
\* of id, with the metadata of the store, unless id was deleted since or never
\* saved: then it fails as not found.  deleteConfig of an id that is not stored
\* fails and leaves the directory as it was.
C19_LoadReturnsLatestSave ==
  /\ pf.res.op = "load" =>
       LET saved == pf.expected[pf.res.id]
       IN IF "absent" \in DOMAIN saved
          THEN ~pf.res.ok /\ pf.res.err = "notfound"
          ELSE /\ pf.res.ok
               /\ sameConfiguration(pf.res.config, saved)
               /\ metadataFields \subseteq DOMAIN pf.res.config
  /\ pf.res.op = "delete" /\ pf.before[pf.res.id].kind = "none" =>
       ~pf.res.ok /\ pf.res.err = "notfound" /\ pf.files = pf.before

\* a configuration was saved, then updated, and loadConfig returned the updated one;
\* the other id, never saved, is not in the directory
C19_Witness ==
  /\ pf.res.op = "load" /\ pf.res.ok
  /\ pf.res.config.name = "n3"
  /\ pf.res.config.updatedAt > pf.res.config.createdAt
  /\ \E id \in StoreIds : pf.files[id].kind = "none"

\* the file cannot be parsed as JSON, or its blob does not decrypt under the key
badRecord(file) ==
  \/ file.kind # "json"
  \/ file.blob.key # storeKey
  \/ ~file.blob.tagOk

\* C20: listConfigs never fails because of a bad record: every stored record that
\* cannot be read, decrypted or parsed is listed as {connectorId, status: invalid,
\* error}, every other stored record with its summary fields, and totalCount is
\* the number of stored records.
C20_BadRecordIsFlaggedNotFatal ==
  pf.res.op = "list" =>
    LET dir    == pf.before
        stored == {id \in StoreIds : dir[id].kind # "none"}
        entry(id) == {n \in 1..Len(pf.res.configs) : pf.res.configs[n].connectorId = id}
    IN /\ pf.res.ok
       /\ pf.res.totalCount = Cardinality(stored)
       /\ Len(pf.res.configs) = Cardinality(stored)
       /\ \A id \in stored :
            /\ Cardinality(entry(id)) = 1
            /\ \A n \in entry(id) :
                 LET e == pf.res.configs[n]
                 IN IF badRecord(dir[id])
                    THEN /\ DOMAIN e = {"connectorId", "status", "error"}
                         /\ e.status = "invalid"
                    ELSE /\ DOMAIN e = {"connectorId", "type", "name", "endpoint",
                                        "healthcareCompliance", "lastModified"}
                         /\ e.type = dir[id].blob.plaintext.type
                         /\ e.name = dir[id].blob.plaintext.name
                         /\ e.endpoint = dir[id].blob.plaintext.endpoint
                         /\ e.healthcareCompliance = dir[id].blob.plaintext.healthcareCompliance

\* a listing of two stored records, one of them altered: one summary, one flagged
C20_Witness ==
  /\ pf.res.op = "list" /\ pf.res.ok /\ pf.res.totalCount = 2
  /\ \E m, n \in 1..Len(pf.res.configs) :
       /\ "status" \in DOMAIN pf.res.configs[m] /\ pf.res.configs[m].error = "integrity"
       /\ "type" \in DOMAIN pf.res.configs[n]

(***************************************************************************)
(* HealthcareEncryption (WebConnectorManager.js) and ConfigEncryption      *)
(* (ConnectorConfigManager.js): AES-256-GCM, symbolically.  The ciphertext *)
(* of a text under a key and an iv is the term [key, iv, text]; the tag is *)
(* the term made of key, iv, additional data and ciphertext.  A draw of    *)
(* crypto.randomBytes(16) returns a value no earlier draw returned.        *)
(***************************************************************************)
MaxBlobs == 2

CipherClasses == {"HealthcareEncryption", "ConfigEncryption"}

MasterSecrets == {"s1", "s2"}

\* crypto.scryptSync(encryptionKey, salt, 32), the salt of each class
deriveKey(cls, secret) ==
  [secret |-> secret,
   salt |-> IF cls = "HealthcareEncryption" THEN "brainsait-connector-salt"
            ELSE "brainsait-config-salt"]

\* cipher.setAAD / decipher.setAAD
aadOf(cls) ==
  IF cls = "HealthcareEncryption" THEN "brainsait-connector" ELSE "brainsait-connector-config"

gcmCiphertext(key, iv, text) == [key |-> key, iv |-> iv, text |-> text]

gcmTag(key, iv, aad, ct) == [key |-> key, iv |-> iv, aad |-> aad, ct |-> ct]

\* the JSON values offered to encrypt
JSONValues ==
  { StrV(<<>>), StrV(<<"0">>), StrV(<<"\"">>), StrV(<<"\\">>),
    NumV(0), ObjV(<<>>), ObjV(<<<<S_MRN, <<"\"", "}">>>>>>) }

\* JSON.parse: the value whose JSON text this is; it throws on any other text
parseJSON(text) ==
  IF \E v \in JSONValues : stringifyValue(v) = text
  THEN [ok |-> TRUE, value |-> CHOOSE v \in JSONValues : stringifyValue(v) = text]
  ELSE [ok |-> FALSE, value |-> NumV(0)]

\* a faulty encrypt: the cipher runs under an iv derived from the key, not the
\* random one that the blob carries
cipherEncrypt_derivedIv(cls, secret, data, iv) ==
  LET key == deriveKey(cls, secret)
      ct  == gcmCiphertext(key, 0, stringifyValue(data))
  IN [encrypted |-> ct, iv |-> iv,
      authTag |-> [mac |-> gcmTag(key, 0, aadOf(cls), ct), len |-> 16]]

\* encrypt of either class, with iv the 16 random bytes it has drawn
cipherEncrypt(cls, secret, data, iv) ==
  LET key == deriveKey(cls, secret)
      ct  == gcmCiphertext(key, iv, stringifyValue(data))
  IN [encrypted |-> ct, iv |-> iv,
      authTag |-> [mac |-> gcmTag(key, iv, aadOf(cls), ct), len |-> 16]]

NoValue == [kind |-> "none", s |-> <<>>, n |-> 0, f |-> <<>>, iv |-> 0]

\* a faulty decrypt: it returns the decrypted text, not what JSON.parse makes of it
cipherDecrypt_noParse(cls, secret, blob) ==
  LET key == deriveKey(cls, secret)
  IN IF /\ blob.authTag.len \in validTagLengths
        /\ blob.authTag.mac = gcmTag(key, blob.iv, aadOf(cls), blob.encrypted)
     THEN [ok |-> TRUE, value |-> StrV(blob.encrypted.text)]
     ELSE [ok |-> FALSE, value |-> NoValue]

\* decrypt of either class: setAuthTag throws for a tag of no valid length,
\* decipher.final throws unless the tag is the leading bytes of the tag of key, iv,
\* additional data and ciphertext, JSON.parse throws on a text that is not JSON
cipherDecrypt(cls, secret, blob) ==
  LET key == deriveKey(cls, secret)
  IN IF /\ blob.authTag.len \in validTagLengths
        /\ blob.authTag.mac = gcmTag(key, blob.iv, aadOf(cls), blob.encrypted)
        /\ parseJSON(blob.encrypted.text).ok
     THEN [ok |-> TRUE, value |-> parseJSON(blob.encrypted.text).value]
     ELSE [ok |-> FALSE, value |-> NoValue]

\* what can be done to a blob after encryption: a changed ciphertext, a changed iv,
\* a changed tag, a tag cut to its first 4 bytes
BlobAlterations == {"ciphertext", "iv", "authTag", "truncatedTag"}

alterBlob(blob, how) ==
  CASE how = "ciphertext" -> [blob EXCEPT !.encrypted.text = Append(@, "~")]
    [] how = "iv" -> [blob EXCEPT !.iv = 0]
    [] how = "authTag" -> [blob EXCEPT !.authTag.mac.aad = "~"]
    [] OTHER -> [blob EXCEPT !.authTag.len = 4]

NoCryptoResult ==
  [op |-> "none", i |-> 0, cls |-> "none", secret |-> "none", ok |-> FALSE, value |-> NoValue]

\* blobs: what encrypt returned, with the class, secret and data it was made from
\* and what was done to it since; drawn: the number of randomBytes draws; res: the
\* latest decrypt, when nothing has happened since
InitCrypto ==
  /\ InitManager
  /\ pf = [kind |-> "crypto", blobs |-> <<>>, drawn |-> 0, res |-> NoCryptoResult]

EncryptValue(cls, secret, data) ==
  /\ pf.kind = "crypto" /\ Len(pf.blobs) < MaxBlobs
  /\ pf' = [pf EXCEPT !.drawn = @ + 1, !.res = NoCryptoResult,
                      !.blobs = Append(@, [cls |-> cls, secret |-> secret, data |-> data,
                                           altered |-> "none",
                                           blob |-> cipherEncrypt(cls, secret, data, pf.drawn + 1)])]
  /\ Frame

AlterBlob(i, how) ==
  /\ pf.kind = "crypto" /\ i \in 1..Len(pf.blobs)
  /\ pf.blobs[i].altered = "none"
  /\ pf' = [pf EXCEPT !.blobs[i].altered = how, !.blobs[i].blob = alterBlob(@, how),
                      !.res = NoCryptoResult]
  /\ Frame

DecryptBlob(i, cls, secret) ==
  /\ pf.kind = "crypto" /\ i \in 1..Len(pf.blobs)
  /\ LET out == cipherDecrypt(cls, secret, pf.blobs[i].blob)
     IN pf' = [pf EXCEPT !.res = [op |-> "decrypt", i |-> i, cls |-> cls, secret |-> secret,
                                  ok |-> out.ok, value |-> out.value]]
  /\ Frame

NextCrypto ==
  \/ \E cls \in CipherClasses, secret \in MasterSecrets, data \in JSONValues :
       EncryptValue(cls, secret, data)
  \/ \E i \in 1..MaxBlobs, how \in BlobAlterations : AlterBlob(i, how)
  \/ \E i \in 1..MaxBlobs, cls \in CipherClasses, secret \in MasterSecrets :
       DecryptBlob(i, cls, secret)

SpecCrypto == InitCrypto /\ [][NextCrypto]_vars

C22_FreshIvPerEncryption ==
  \A i, j \in 1..Len(pf.blobs) :
    LET a == pf.blobs[i]
        b == pf.blobs[j]
    IN /\ a.altered = "none" => a.blob.encrypted.iv = a.blob.iv
       /\ (/\ i # j /\ a.altered = "none" /\ b.altered = "none"
           /\ a.cls = b.cls /\ a.secret = b.secret /\ a.data = b.data) =>
            a.blob.iv # b.blob.iv /\ a.blob.encrypted # b.blob.encrypted

\* the same value was encrypted twice by HealthcareEncryption under one secret
C22_Witness ==
  /\ Len(pf.blobs) = 2
  /\ pf.blobs[1].cls = "HealthcareEncryption" /\ pf.blobs[2].cls = "HealthcareEncryption"
  /\ pf.blobs[1].secret = pf.blobs[2].secret /\ pf.blobs[1].data = pf.blobs[2].data
  /\ pf.blobs[1].altered = "none" /\ pf.blobs[2].altered = "none"

\* C23: decrypt fails closed: whenever the ciphertext, the iv or the authTag of a
\* blob was altered after encryption, decrypt throws and returns no data.
C23_AlteredBlobNeverDecrypts ==
  pf.res.op = "decrypt" /\ pf.blobs[pf.res.i].altered # "none" =>
    ~pf.res.ok /\ pf.res.value = NoValue

\* whatever was done to the blob, a decrypt that returns a value returns the value
\* that was encrypted, and it returns only under the class and the secret that
\* encrypted it
DecryptReturnsOnlyTheOriginal ==
  pf.res.op = "decrypt" /\ pf.res.ok =>
    LET b == pf.blobs[pf.res.i]
    IN pf.res.value = b.data /\ pf.res.cls = b.cls /\ pf.res.secret = b.secret

\* a blob whose ciphertext, iv or tag was changed to other bytes does not decrypt
ChangedBytesNeverDecrypt ==
  pf.res.op = "decrypt" /\ pf.blobs[pf.res.i].altered \in {"ciphertext", "iv", "authTag"} =>
    ~pf.res.ok /\ pf.res.value = NoValue

\* the loadConfig part of C23: loadConfig of a stored record whose tag is no longer
\* the 16 bytes that encrypt wrote fails.  SpecStoreAltered violates it: the record
\* whose tag was cut to its first 4 bytes loads.
LoadOfTruncatedTagFails ==
  pf.res.op = "load" /\ pf.before[pf.res.id].kind = "json" =>
    (pf.before[pf.res.id].blob.tagLen # 16 => ~pf.res.ok)

(***************************************************************************)
(* PHIEncryption (src/brainsait_mcp_server.js): encrypt draws 16 random    *)
(* bytes, returns them as iv, and makes its cipher with                    *)
(* crypto.createCipher(algorithm, key), which takes no iv: where the       *)
(* function exists it derives key and iv from its second argument; where   *)
(* it has been removed from the crypto module the call throws a TypeError. *)
(***************************************************************************)
CryptoRuntimes == {"createCipher", "removed"}

\* the key and the iv that createCipher derives from its password argument
derivedFromPassword(password) ==
  [key |-> [derivedFrom |-> password, part |-> "key"],
   iv  |-> [derivedFrom |-> password, part |-> "iv"]]

\* PHIEncryption.encrypt, with iv the 16 random bytes it has drawn
phiEncrypt(runtime, secret, data, iv) ==
  LET password == [secret |-> secret, salt |-> "brainsait-salt"]
      derived  == derivedFromPassword(password)
      ct       == gcmCiphertext(derived.key, derived.iv, stringifyValue(data))
  IN IF runtime = "removed"
     THEN [ok |-> FALSE, secret |-> secret, data |-> data, encrypted |-> <<>>, iv |-> 0]
     ELSE [ok |-> TRUE, secret |-> secret, data |-> data, encrypted |-> ct, iv |-> iv]

InitPHI ==
  /\ InitManager
  /\ \E runtime \in CryptoRuntimes :
       pf = [kind |-> "phi", runtime |-> runtime, results |-> <<>>, drawn |-> 0]

PHIEncrypt(secret, data) ==
  /\ pf.kind = "phi" /\ Len(pf.results) < MaxBlobs
  /\ pf' = [pf EXCEPT !.drawn = @ + 1,
                      !.results = Append(@, phiEncrypt(pf.runtime, secret, data, pf.drawn + 1))]
  /\ Frame

NextPHI == \E secret \in MasterSecrets, data \in JSONValues : PHIEncrypt(secret, data)

SpecPHI == InitPHI /\ [][NextPHI]_vars

\* C24: PHIEncryption.encrypt applied twice to the same data with the same key
\* returns two results whose encrypted texts differ and whose ivs differ.
C24_PHIEncryptionsDiffer ==
  \A i, j \in 1..Len(pf.results) :
    LET a == pf.results[i]
        b == pf.results[j]
    IN i # j /\ a.secret = b.secret /\ a.data = b.data =>
         /\ a.ok /\ b.ok
         /\ a.encrypted # b.encrypted
         /\ a.iv # b.iv

\* where createCipher exists, the ivs that two calls return differ
PHIReturnedIvsDiffer ==
  \A i, j \in 1..Len(pf.results) :
    i # j /\ pf.results[i].ok /\ pf.results[j].ok => pf.results[i].iv # pf.results[j].iv

\* C25: when the violations hold no HIGH one and at least one MEDIUM one, the overall
\* verdict is NON_COMPLIANT for a validator configured with strict mode enabled and
\* CONDITIONALLY_COMPLIANT for one configured with strict mode disabled (strictMode:
\* false given to the validator, or strictCompliance: false given to the manager).
C25_StrictModeDecidesMediumVerdict ==
  (/\ pf.kind = "determine" /\ pf.done
   /\ ~hasHigh(pf.violations)
   /\ bySeverity(pf.violations, "MEDIUM") # <<>>) =>
    /\ pf.configured = IF pf.strict THEN "NON_COMPLIANT" ELSE "CONDITIONALLY_COMPLIANT"
    /\ pf.managed = IF pf.strict THEN "NON_COMPLIANT" ELSE "CONDITIONALLY_COMPLIANT"

\* with MEDIUM and no HIGH violations the verdict of a constructed validator is
\* NON_COMPLIANT whatever strictMode or strictCompliance was given
MediumVerdictIsAlwaysNonCompliant ==
  (/\ pf.kind = "determine" /\ pf.done
   /\ ~hasHigh(pf.violations)
   /\ bySeverity(pf.violations, "MEDIUM") # <<>>) =>
    pf.configured = "NON_COMPLIANT" /\ pf.managed = "NON_COMPLIANT"

\* no rule of validateConnectorCompliance or validateDataTransmission reports a
\* violation of a severity other than HIGH (MEDIUM and LOW findings are warnings)
EveryReportedViolationIsHigh ==
  pf.kind \in {"config", "data"} /\ pf.done =>
    \A n \in 1..Len(pf.out.violations) : pf.out.violations[n].severity = "HIGH"

\* C26: a connector in status error or unauthorized stays in the registry and stays
\* visible: an id leaves the registry only in a step of unregisterConnector(id), and
\* that call succeeds; getConnectorStatus of a registered id returns, whatever the
\* status of its connector.
C26_OnlySuccessfulUnregisterRemoves ==
  [][/\ \A id \in Ids :
          has(connectors, id) /\ ~has(connectors', id) =>
            \E t \in Slots : /\ tasks[t].op = "unregister" /\ tasks[t].id = id
                             /\ tasks[t].pc = "unreg_delete" /\ tasks'[t].wrote
     /\ \A t \in Slots :
          /\ (tasks'[t].pc = "done" /\ tasks'[t].op = "unregister" /\ tasks'[t].wrote) =>
               tasks'[t].ok
          /\ (tasks'[t].pc = "done" /\ tasks'[t].op = "status" /\ ~tasks'[t].absent) =>
               tasks'[t].ok /\ Len(tasks'[t].conf) = 1]_vars

\* an id leaves the registry only in the delete step of an unregisterConnector(id)
\* call: no health-check tick and no failed call removes it
OnlyUnregisterDeletes ==
  [][\A id \in Ids :
       has(connectors, id) /\ ~has(connectors', id) =>
         \E t \in Slots : /\ tasks[t].op = "unregister" /\ tasks[t].id = id
                          /\ tasks[t].pc = "unreg_delete" /\ tasks'[t].wrote]_vars

\* getConnectorStatus and listConnectors show every registered connector, whatever
\* its status
RegisteredIsVisible ==
  \A t \in Slots :
    /\ (tasks[t].pc = "done" /\ tasks[t].op = "status" /\ ~tasks[t].absent) => tasks[t].ok
    /\ (tasks[t].pc = "done" /\ tasks[t].op = "list") =>
         tasks[t].ok /\ Len(tasks[t].conf) = Len(connectors)


\* ---------------------------------------------------------------------------
\* Backups of the store.  Calls may follow one another within one millisecond,
\* the resolution of toISOString(), which names the backup directory.
\* ---------------------------------------------------------------------------

NextBackup ==
  \/ \E id \in StoreIds, dt \in {0, 1} : SaveConfig(id, 1, dt)
  \/ \E id \in StoreIds, dt \in {0, 1} : DeleteConfig(id, dt)
  \/ \E id \in StoreIds, dt \in {0, 1} : LoadConfig(id, dt)
  \/ \E dt \in {0, 1} : ListConfigs(dt)
  \/ \E dt \in {0, 1} : BackupConfigs(dt)

SpecBackup == InitStore /\ [][NextBackup]_vars

\* what a file holds, whenever it was written
contentOf(file) == IF file.kind = "json" THEN file.blob ELSE file.kind

\* the directory holds exactly the copies of the files of the snapshot
holdsCopyOf(dir, snapshot) ==
  /\ dir.exists
  /\ \A id \in StoreIds : contentOf(dir.files[id]) = contentOf(snapshot[id])

\* C27: every backupConfigs call copies all the stored records into a new
\* timestamped location and reports their number, leaves the primary records as
\* they were, leaves every earlier backup as it was made, and no backup copy
\* shows in what listConfigs or loadConfig return.
C27_BackupIsNewAndLeavesOthersAlone ==
  pf.kind = "store" =>
    /\ \A n \in 1..Len(pf.backupLog) :
         /\ \A m \in 1..(n - 1) : pf.backupLog[m].dir # pf.backupLog[n].dir
         /\ holdsCopyOf(pf.backups[pf.backupLog[n].dir], pf.backupLog[n].snapshot)
    /\ pf.res.op = "backup" =>
         /\ pf.res.ok
         /\ pf.files = pf.before
         /\ pf.res.totalCount = Cardinality({id \in StoreIds : pf.before[id].kind # "none"})
    /\ pf.res.op = "list" /\ pf.res.ok =>
         pf.res.totalCount = Cardinality({id \in StoreIds : pf.files[id].kind # "none"})
    /\ pf.res.op = "load" /\ pf.files[pf.res.id].kind = "none" => ~pf.res.ok

\* the parts of C27 that do not depend on the name of the directory: the count,
\* the primaries, the listing and the loads
BackupLeavesPrimariesAndListings ==
  pf.kind = "store" =>
    /\ pf.res.op = "backup" =>
         /\ pf.res.ok
         /\ pf.files = pf.before
         /\ pf.res.totalCount = Cardinality({id \in StoreIds : pf.before[id].kind # "none"})
         /\ holdsCopyOf([exists |-> TRUE,
                         files |-> [id \in StoreIds |->
                                      IF pf.before[id].kind # "none"
                                        THEN pf.backups[pf.res.backupDir].files[id]
                                      ELSE NoFile]],
                        pf.before)
    /\ pf.res.op = "list" /\ pf.res.ok =>
         pf.res.totalCount = Cardinality({id \in StoreIds : pf.files[id].kind # "none"})
    /\ pf.res.op = "load" /\ pf.files[pf.res.id].kind = "none" => ~pf.res.ok

\* backups made in different milliseconds keep to themselves
BackupsOfDifferentMillisecondsKeep ==
  pf.kind = "store" =>
    \A n \in 1..Len(pf.backupLog) :
      (\A m \in 1..Len(pf.backupLog) :
          m # n => pf.backupLog[m].dir # pf.backupLog[n].dir)
        => holdsCopyOf(pf.backups[pf.backupLog[n].dir], pf.backupLog[n].snapshot)

\* ---------------------------------------------------------------------------
\* Registration, as the registry and the listeners see it
\* ---------------------------------------------------------------------------

\* the instances that this step has put into the registry
insertedBy(before, after) ==
  {after[k].inst : k \in 1..Len(after)} \ {before[k].inst : k \in 1..Len(before)}

\* C28: a connector enters the registry only after its testConnection has
\* succeeded, with status connected at that moment; connectorRegistered is emitted
\* only after the insertion, and never by a registration that fails.
C28_InsertedConnectedThenAnnounced ==
  [][/\ \A i \in insertedBy(connectors, connectors') :
          /\ objs'[i].status = "connected"
          /\ \E t \in Slots : /\ tasks'[t].op = "register" /\ tasks'[t].inst = i
                              /\ tasks'[t].tested /\ tasks'[t].cause = "none"
     /\ \A t \in Slots :
          tasks'[t].op = "register" /\ tasks'[t].emitted =>
            /\ tasks'[t].wrote
            /\ tasks'[t].pc = "done" /\ tasks'[t].ok /\ tasks'[t].err = "none"]_vars

\* a registration over the network has stored its connector and announced it
C28_Witness ==
  \E t \in Slots :
    /\ tasks[t].op = "register" /\ tasks[t].emitted /\ tasks[t].net
    /\ get(connectors, tasks[t].id) = tasks[t].inst
    /\ objs[tasks[t].inst].status = "connected"

\* ---------------------------------------------------------------------------
\* The status after disconnect()
\* ---------------------------------------------------------------------------

\* the objects that an unregisterConnector call, not yet returned to its caller,
\* has called disconnect() on, once the call has resumed from that await
disconnectedByCall ==
  {tasks[t].inst : t \in {u \in Slots : /\ tasks[u].op = "unregister"
                                        /\ tasks[u].pc # "unreg_delete"}} \ {0}

\* C29: once disconnect() has set a connector's status to disconnected, the
\* status stays disconnected, whatever response arrives afterwards.
C29_DisconnectedIsTerminal ==
  \A i \in disconnectedByCall : objs[i].status = "disconnected"

\* the status after disconnect() changes only by the response interceptor, on a
\* 401 answer to a request that was in flight
OnlyInterceptorLeavesDisconnected ==
  \A i \in disconnectedByCall : objs[i].status \in {"disconnected", "unauthorized"}

\* ---------------------------------------------------------------------------
\* The probes of one run of the health-check timer
\* ---------------------------------------------------------------------------

\* C30: in one run of the health-check timer the probes of the registered
\* connectors are in flight together: while one connector's probe is awaited, no
\* other connector of the run is still waiting for its probe to be sent.
C30_ProbesRunConcurrently ==
  tick.active => tick.todo = <<>>

\* a run has one probe in flight at a time, and the connectors still to be probed
\* are the registered ones that the iterator has not reached
ProbesRunInRegistryOrder ==
  tick.active =>
    /\ tick.inst # 0
    /\ \A k \in 1..Len(tick.todo) : has(connectors, tick.todo[k])

\* ---------------------------------------------------------------------------
\* The events of the health-check timer
\* ---------------------------------------------------------------------------

\* this step is the timer callback resuming after the probe of tick.id
probeReturns ==
  /\ tick.active /\ tick' # tick
  /\ tasks' = tasks /\ connectors' = connectors

\* C31: connectorUnhealthy is emitted exactly on a transition: it is emitted when a
\* run records as unhealthy a connector whose previous health record was absent or
\* healthy, and it is not emitted when the previous record was unhealthy already.
C31_UnhealthyEventOnTransitionOnly ==
  [][probeReturns /\ healthChecks'[tick.id] = "unhealthy" =>
       /\ healthChecks[tick.id] \in {"none", "healthy"} =>
            tick'.events[tick.id] = "connectorUnhealthy"
       /\ healthChecks[tick.id] = "unhealthy" =>
            tick'.events[tick.id] # "connectorUnhealthy"]_vars

\* connectorUnhealthy is emitted after every probe that is recorded as unhealthy,
\* and after no other
UnhealthyEventOnEveryUnhealthyProbe ==
  [][probeReturns =>
       (tick'.events[tick.id] = "connectorUnhealthy" <=>
          healthChecks'[tick.id] = "unhealthy")]_vars

\* ---------------------------------------------------------------------------
\* listConnectors among the microtasks of other calls.  listConnectors awaits
\* getConnectorStatus once per entry; each await resumes in a microtask, and so
\* does unregisterConnector after its await of connector.disconnect().  The
\* microtasks of the calls made in one synchronous block run first in, first out,
\* before any I/O callback (draining: the queue is being run, no caller code runs).
\* ---------------------------------------------------------------------------
MaxListCalls == 5

\* state: "none", "running", "returned" or "threw"; cursor: the position of the
\* Map iterator; listed: the ids pushed so far; held: the status object awaited;
\* snaps: the sets of registered ids since the call; early: the ids read while
\* their registerConnector call had not returned
NoList ==
  [state |-> "none", cursor |-> 0, held |-> 0, listed |-> <<>>, snaps |-> {},
   early |-> {}]

keysOf(registry) == {registry[k] : k \in 1..Len(registry)}

indexOf(registry, id) == CHOOSE k \in 1..Len(registry) : registry[k] = id

\* the iterator of a for...of over the Map steps to the next entry and the loop
\* body calls getConnectorStatus(id), which throws when connectors.get(id) is empty
listNext(list, registry, inflight) ==
  IF list.cursor + 1 > Len(registry)
  THEN [list EXCEPT !.state = "returned", !.held = 0]
  ELSE LET id == registry[list.cursor + 1]
       IN IF id \notin keysOf(registry)
          THEN [list EXCEPT !.state = "threw", !.held = 0]
          ELSE [list EXCEPT !.cursor = @ + 1, !.held = id,
                            !.early = IF id \in inflight THEN @ \cup {id} ELSE @]

\* the registry changes while a listConnectors call is running
listSees(list, registry) ==
  IF list.state = "running" THEN [list EXCEPT !.snaps = @ \cup {keysOf(registry)}]
  ELSE list

InitList ==
  /\ InitManager
  /\ pf = [kind |-> "list", registry |-> <<>>, inflight |-> {}, queue |-> <<>>,
           draining |-> FALSE, list |-> NoList, calls |-> 0]

\* registerConnector(id, config): testConnection has returned and the connector is
\* stored; the call now awaits logConnectorEvent
RegistryInsert(id) ==
  /\ pf.kind = "list" /\ pf.queue = <<>> /\ pf.calls < MaxListCalls
  /\ id \notin keysOf(pf.registry) /\ id \notin pf.inflight
  /\ pf' = [pf EXCEPT !.registry = Append(@, id), !.inflight = @ \cup {id},
                      !.calls = @ + 1]
  /\ Frame

\* logConnectorEvent has ended: registerConnector returns or rejects
RegistrationEnds(id) ==
  /\ pf.kind = "list" /\ pf.queue = <<>>
  /\ id \in pf.inflight
  /\ pf' = [pf EXCEPT !.inflight = @ \ {id}]
  /\ Frame

\* unregisterConnector(id) up to its await of connector.disconnect()
UnregisterCalled(id) ==
  /\ pf.kind = "list" /\ pf.calls < MaxListCalls
  /\ ~pf.draining
  /\ id \in keysOf(pf.registry)
  /\ [op |-> "unregister", id |-> id] \notin keysOf(pf.queue)
  /\ pf' = [pf EXCEPT !.queue = Append(@, [op |-> "unregister", id |-> id]),
                      !.calls = @ + 1]
  /\ Frame

\* listConnectors() up to its first await
ListCalled ==
  /\ pf.kind = "list" /\ pf.calls < MaxListCalls
  /\ ~pf.draining
  /\ pf.list.state # "running"
  /\ LET fresh == [NoList EXCEPT !.state = "running",
                                 !.snaps = {keysOf(pf.registry)}]
         list  == listNext(fresh, pf.registry, pf.inflight)
     IN pf' = [pf EXCEPT !.list = list, !.calls = @ + 1,
                         !.queue = IF list.state = "running"
                                   THEN Append(@, [op |-> "list", id |-> 0]) ELSE @]
  /\ Frame

\* the microtask at the head of the queue runs
RunMicrotask ==
  /\ pf.kind = "list" /\ pf.queue # <<>>
  /\ LET m == Head(pf.queue)
     IN IF m.op = "unregister"
        THEN LET k        == IF m.id \in keysOf(pf.registry)
                             THEN indexOf(pf.registry, m.id) ELSE 0
                 registry == SelectSeq(pf.registry, LAMBDA x : x # m.id)
                 moved    == [pf.list EXCEPT !.cursor =
                                IF k # 0 /\ k <= @ THEN @ - 1 ELSE @]
             IN pf' = [pf EXCEPT !.queue = Tail(@), !.registry = registry,
                                 !.draining = Tail(pf.queue) # <<>>,
                                 !.list = listSees(moved, registry)]
        ELSE LET pushed == [pf.list EXCEPT !.listed = Append(@, pf.list.held)]
                 list   == listNext(pushed, pf.registry, pf.inflight)
             IN pf' = [pf EXCEPT !.list = list,
                                 !.draining = list.state = "running" \/ Tail(pf.queue) # <<>>,
                                 !.queue = IF list.state = "running"
                                           THEN Append(Tail(@), m) ELSE Tail(@)]
  /\ Frame

NextList ==
  \/ \E id \in Ids : RegistryInsert(id)
  \/ \E id \in Ids : RegistrationEnds(id)
  \/ \E id \in Ids : UnregisterCalled(id)
  \/ ListCalled
  \/ RunMicrotask

SpecList == InitList /\ [][NextList]_vars

\* C34: whatever registerConnector and unregisterConnector calls it overlaps with,
\* a listConnectors call returns the connectors that were registered at one
\* instant during the call, never throws not-found, and never returns a connector
\* whose registerConnector call has not returned.
C34_ListIsConsistentSnapshot ==
  pf.kind = "list" =>
    /\ pf.list.state # "threw"
    /\ pf.list.state = "returned" =>
         /\ keysOf(pf.list.listed) \in pf.list.snaps
         /\ pf.list.early = {}

\* the snapshot part of C34 alone
ListedSetWasRegisteredAtOneInstant ==
  pf.kind = "list" /\ pf.list.state = "returned" =>
    keysOf(pf.list.listed) \in pf.list.snaps

\* listConnectors never throws, returns no id twice, and every id it returns was
\* registered when the call was made or was registered during the call
ListReturnsRegisteredIds ==
  pf.kind = "list" =>
    /\ pf.list.state # "threw"
    /\ \A j, k \in 1..Len(pf.list.listed) :
         pf.list.listed[j] = pf.list.listed[k] => j = k
    /\ keysOf(pf.list.listed) \subseteq UNION pf.list.snaps

\* ---------------------------------------------------------------------------
\* validateConnectorHealth
\* ---------------------------------------------------------------------------

\* the probe that executeRemoteCall forced has just returned to the call t
forcedProbeReturns(t) ==
  tasks[t].pc = "exec_probe" /\ tasks'[t].pc # "exec_probe"

\* C32: executeRemoteCall probes the connector before validation and dispatch
\* when its cached health record is missing or not healthy, skips the probe when
\* the record is healthy, and after a forced probe the cached record shows how
\* that probe ended.
C32_HealthIsCurrentBeforeDispatch ==
  [][\A t \in Slots :
       /\ (tasks[t].pc = "idle" /\ tasks'[t].op = "execute" /\ ~tasks'[t].absent) =>
            (tasks'[t].pc = "exec_probe" <=> healthChecks[tasks'[t].id] # "healthy")
       /\ tasks'[t].pc = "exec_probe" => ~tasks'[t].called /\ ~tasks'[t].sent
       /\ forcedProbeReturns(t) =>
            healthChecks'[tasks[t].id] =
              (IF tasks'[t].probe = "ok" THEN "healthy" ELSE "unhealthy")]_vars

\* the parts of C32 about when the probe is made
ProbeForcedUnlessHealthy ==
  [][\A t \in Slots :
       /\ (tasks[t].pc = "idle" /\ tasks'[t].op = "execute" /\ ~tasks'[t].absent) =>
            (tasks'[t].pc = "exec_probe" <=> healthChecks[tasks'[t].id] # "healthy")
       /\ tasks'[t].pc = "exec_probe" => ~tasks'[t].called /\ ~tasks'[t].sent
       /\ forcedProbeReturns(t) =>
            /\ tasks'[t].probe # "none"
            /\ healthChecks' = healthChecks]_vars

\* ---------------------------------------------------------------------------
\* Connectors with a test, mock or example endpoint
\* ---------------------------------------------------------------------------

\* the call t works on a connector whose endpoint is a mock endpoint
onMockEndpoint(t) ==
  /\ tasks[t].op \in {"register", "execute"}
  /\ tasks[t].inst # 0
  /\ mockEndpoint[objs[tasks[t].inst].c]

\* C33: registerConnector and executeRemoteCall on a connector with a mock endpoint
\* make no network request: testConnection sets connected and returns the
\* synthetic result, the call returns the synthetic result and is counted in
\* callsSuccessful.
C33_MockEndpointNeedsNoNetwork ==
  \A t \in Slots : onMockEndpoint(t) =>
    /\ ~tasks[t].net
    /\ ~tasks[t].sent
    /\ tasks[t].pc # "reg_test"

\* on a mock endpoint testConnection and executeCall send nothing, the connector
\* is stored as connected, and the synthetic result is counted as a success; the
\* only request is the probe of validateConnectorHealth
MockTransportIsSynthetic ==
  [][\A t \in Slots :
       (/\ tasks'[t].op \in {"register", "execute"}
        /\ tasks'[t].inst # 0
        /\ mockEndpoint[objs'[tasks'[t].inst].c]) =>
         /\ ~tasks'[t].sent
         /\ tasks'[t].pc \notin {"reg_test", "exec_post"}
         /\ tasks'[t].net => tasks'[t].op = "execute"
         /\ (tasks'[t].net /\ tasks[t].pc = "idle") => tasks'[t].pc = "exec_probe"
         /\ (tasks[t].pc = "reg_compl_log" /\ tasks'[t].pc = "reg_log") =>
              objs'[tasks'[t].inst].status = "connected"
         /\ (tasks[t].pc = "exec_audit" /\ tasks'[t].pc = "exec_log") =>
              objs'[tasks'[t].inst].callsSuccessful =
                objs[tasks'[t].inst].callsSuccessful + 1]_vars

\* ---------------------------------------------------------------------------
\* The metadata of stored records, when the caller supplies metadata of its own
\* ---------------------------------------------------------------------------

\* a time later than the time of any call
CallerTime == MaxStoreOps + 2

MetadataFields == {"createdAt", "updatedAt", "version", "complianceLevel"}

MetadataConfigs ==
  << ValidStoreConfig,
     [createdAt |-> CallerTime] @@ ValidStoreConfig,
     [updatedAt |-> CallerTime] @@ ValidStoreConfig,
     [version |-> "9.9.9"] @@ ValidStoreConfig,
     [complianceLevel |-> "NONE"] @@ ValidStoreConfig >>

MetadataUpdates ==
  << [name |-> "n3"],
     [createdAt |-> CallerTime],
     [updatedAt |-> CallerTime, version |-> "9.9.9", complianceLevel |-> "NONE"] >>

\* saveConfig(id, config) with a config that may carry metadata fields
SaveConfigWithMetadata(id, n) ==
  /\ pf.kind = "store" /\ pf.ops < MaxStoreOps
  /\ \E iv \in {1} :
       StoreCall(saveConfig(pf.files, "save", id, MetadataConfigs[n], pf.clock + 1, iv),
                 pf.clock + 1)
  /\ Frame

\* updateConfig(id, updates) with updates that may carry metadata fields; input
\* is what the caller passed
UpdateConfigWithMetadata(id, n) ==
  /\ pf.kind = "store" /\ pf.ops < MaxStoreOps
  /\ \E iv \in {1} :
       LET out == updateConfig(pf.files, id, MetadataUpdates[n], pf.clock + 1, iv)
       IN StoreCall([out EXCEPT !.res.input = MetadataUpdates[n]], pf.clock + 1)
  /\ Frame

NextMetadata ==
  \/ \E id \in StoreIds, n \in DOMAIN MetadataConfigs : SaveConfigWithMetadata(id, n)
  \/ \E id \in StoreIds, n \in DOMAIN MetadataUpdates : UpdateConfigWithMetadata(id, n)
  \/ \E id \in StoreIds : DeleteConfig(id, 1)

SpecMetadata == InitStore /\ [][NextMetadata]_vars

\* the record that the latest call stored, and the one it found
storedRecord == configDecrypt(pf.files[pf.res.id].blob, storeKey).config

foundRecord == configDecrypt(pf.before[pf.res.id].blob, storeKey).config

\* C35: the metadata of a stored record comes from the store: no value that the
\* caller passed to saveConfig for createdAt, updatedAt, version or complianceLevel
\* is stored, and updateConfig keeps the createdAt of the record while it sets
\* updatedAt to the time of the update.
C35_MetadataComesFromTheStore ==
  (pf.kind = "store" /\ pf.res.ok) =>
    /\ pf.res.op = "save" =>
         \A f \in MetadataFields \cap DOMAIN pf.res.input :
            storedRecord[f] # pf.res.input[f]
    /\ pf.res.op = "update" =>
         /\ storedRecord.createdAt = foundRecord.createdAt
         /\ storedRecord.updatedAt = pf.clock

\* updatedAt, version and complianceLevel are always the store's; createdAt is the
\* store's unless the caller passes one
MetadataExceptCreatedAtComesFromTheStore ==
  (pf.kind = "store" /\ pf.res.ok /\ pf.res.op \in {"save", "update"}) =>
    /\ storedRecord.updatedAt = pf.clock
    /\ storedRecord.version = "1.0.0"
    /\ storedRecord.complianceLevel = "HIPAA,NPHIES"
    /\ "createdAt" \notin DOMAIN pf.res.input =>
         storedRecord.createdAt =
           (IF pf.res.op = "update" THEN foundRecord.createdAt ELSE pf.clock)

\* ---------------------------------------------------------------------------
\* saveConfig, updateConfig and loadConfig of one id, overlapping in time.
\* fs.writeFile opens the file with flag 'w', which truncates it, and writes the
\* data afterwards; fs.access and fs.readFile are two more steps.
\* ---------------------------------------------------------------------------
MaxStoreCalls == 3

StoreSlots == {1, 2}

OverlapConfigs == {1, 2}

OverlapUpdates == {1, 6}

NoStoreCall ==
  [op |-> "none", pc |-> "idle", ok |-> FALSE, err |-> "", blob |-> NoFile,
   config |-> NoConfig, updates |-> 0, wrote |-> FALSE]

\* file: the file of the id; written: the records that a writeFile has written in
\* full; last: the record of the writeFile that ended last; n: the calls made
InitOverlap ==
  /\ InitManager
  /\ pf = [kind |-> "overlap", file |-> NoFile,
           calls |-> [s \in StoreSlots |-> NoStoreCall],
           written |-> {}, last |-> NoConfig, n |-> 0]

\* saveConfig up to its await of fs.writeFile: validate, sanitize, encrypt
saveBegins(call, config, now) ==
  LET verdict == validateConfiguration(config)
  IN IF verdict # "ok" THEN [call EXCEPT !.pc = "done", !.err = verdict]
     ELSE [call EXCEPT !.pc = "open",
             !.blob = [kind |-> "json", mtime |-> now,
                       blob |-> configEncrypt(sanitizeConfig(config, now), storeKey, 1, now)]]

SaveBegins(s, n) ==
  /\ pf.kind = "overlap" /\ pf.n < MaxStoreCalls
  /\ pf.calls[s].pc = "idle"
  /\ pf' = [pf EXCEPT !.n = @ + 1,
              !.calls[s] = saveBegins([NoStoreCall EXCEPT !.op = "save"],
                                      StoreConfigs[n], pf.n + 1)]
  /\ Frame

\* loadConfig, or the loadConfig of updateConfig, up to its await of fs.access
LoadBegins(s, op, n) ==
  /\ pf.kind = "overlap" /\ pf.n < MaxStoreCalls
  /\ pf.calls[s].pc = "idle"
  /\ pf' = [pf EXCEPT !.n = @ + 1,
              !.calls[s] = [NoStoreCall EXCEPT !.op = op, !.pc = "access", !.updates = n]]
  /\ Frame

\* fs.access has ended
AccessReturns(s) ==
  /\ pf.kind = "overlap"
  /\ pf.calls[s].pc = "access"
  /\ pf' = [pf EXCEPT !.calls[s] =
              IF pf.file.kind = "none" THEN [@ EXCEPT !.pc = "done", !.err = "notfound"]
              ELSE [@ EXCEPT !.pc = "read"]]
  /\ Frame

\* fs.readFile has ended: parse and decrypt; updateConfig merges and goes on to
\* saveConfig
ReadFileReturns(s) ==
  /\ pf.kind = "overlap"
  /\ pf.calls[s].pc = "read"
  /\ LET call   == pf.calls[s]
         loaded == loadConfig([id \in StoreIds |-> pf.file], "a")
     IN pf' = [pf EXCEPT !.calls[s] =
                 IF ~loaded.ok THEN [call EXCEPT !.pc = "done", !.err = loaded.err]
                 ELSE IF call.op = "load"
                   THEN [call EXCEPT !.pc = "done", !.ok = TRUE, !.config = loaded.config]
                 ELSE saveBegins([call EXCEPT !.config = loaded.config],
                                 mergeUpdates(loaded.config, StoreUpdates[call.updates], pf.n),
                                 pf.n)]
  /\ Frame

\* fs.writeFile has opened the file: it exists and is empty
WriteFileOpens(s) ==
  /\ pf.kind = "overlap"
  /\ pf.calls[s].pc = "open"
  /\ pf' = [pf EXCEPT !.file = [kind |-> "text", mtime |-> pf.calls[s].blob.mtime],
                      !.calls[s].pc = "write"]
  /\ Frame

\* fs.writeFile has written its data at offset 0.  Over data that another
\* writeFile wrote in the meantime the file ends up as this call's data or, when
\* the other data is longer, as this call's data followed by the other's tail
WriteFileWrites(s) ==
  /\ pf.kind = "overlap"
  /\ pf.calls[s].pc = "write"
  /\ \E tail \in BOOLEAN :
       /\ tail => pf.file.kind = "json"
       /\ pf' = [pf EXCEPT
            !.file = IF tail THEN [kind |-> "text", mtime |-> pf.calls[s].blob.mtime]
                     ELSE pf.calls[s].blob,
            !.written = @ \cup {pf.calls[s].blob.blob.plaintext},
            !.last = pf.calls[s].blob.blob.plaintext,
            !.calls[s] = [@ EXCEPT !.pc = "done", !.ok = TRUE, !.wrote = TRUE]]
  /\ Frame

StoreCallReturns(s) ==
  /\ pf.kind = "overlap"
  /\ pf.calls[s].pc = "done"
  /\ pf' = [pf EXCEPT !.calls[s] = NoStoreCall]
  /\ Frame

NextOverlap ==
  \/ \E s \in StoreSlots, n \in OverlapConfigs : SaveBegins(s, n)
  \/ \E s \in StoreSlots : LoadBegins(s, "load", 0)
  \/ \E s \in StoreSlots, n \in OverlapUpdates : LoadBegins(s, "update", n)
  \/ \E s \in StoreSlots : AccessReturns(s)
  \/ \E s \in StoreSlots : ReadFileReturns(s)
  \/ \E s \in StoreSlots : WriteFileOpens(s)
  \/ \E s \in StoreSlots : WriteFileWrites(s)
  \/ \E s \in StoreSlots : StoreCallReturns(s)

SpecOverlap == InitOverlap /\ [][NextOverlap]_vars

writersAtWork ==
  {s \in StoreSlots : pf.calls[s].op \in {"save", "update"} /\ pf.calls[s].pc # "done"}

\* C36: with saveConfig, updateConfig and loadConfig of one id overlapping, every
\* loadConfig of a stored id returns a complete record that some writer wrote,
\* once all writers have finished the file holds the complete record of the writer
\* that wrote last, and updateConfig of an id that is not stored fails and writes
\* nothing.
C36_WritesAreAtomicLastWriterWins ==
  pf.kind = "overlap" =>
    /\ \A s \in StoreSlots :
         (pf.calls[s].op = "load" /\ pf.calls[s].pc = "done") =>
            \/ pf.calls[s].ok /\ pf.calls[s].config \in pf.written
            \/ pf.calls[s].err = "notfound"
    /\ (writersAtWork = {} /\ pf.written # {}) =>
         /\ pf.file.kind = "json"
         /\ configDecrypt(pf.file.blob, storeKey).config = pf.last
    /\ \A s \in StoreSlots :
         (pf.calls[s].op = "update" /\ pf.calls[s].err = "notfound") =>
            ~pf.calls[s].ok /\ ~pf.calls[s].wrote

\* what holds of overlapping calls: a load that succeeds returns a complete
\* record of some writer, and an update of an id that is not stored fails and
\* writes nothing
SuccessfulLoadReturnsWrittenRecord ==
  pf.kind = "overlap" =>
    \A s \in StoreSlots :
      /\ (pf.calls[s].op = "load" /\ pf.calls[s].ok) => pf.calls[s].config \in pf.written
      /\ (pf.calls[s].op = "update" /\ pf.calls[s].err = "notfound") =>
            ~pf.calls[s].ok /\ ~pf.calls[s].wrote

\* the last-writer part of C36 alone
IdleFileHoldsLastWrite ==
  (pf.kind = "overlap" /\ writersAtWork = {} /\ pf.written # {}) =>
    /\ pf.file.kind = "json"
    /\ configDecrypt(pf.file.blob, storeKey).config = pf.last

\* ---------------------------------------------------------------------------
\* The id as the key of the registry
\* ---------------------------------------------------------------------------

\* C37: while an id stays registered, the connector instance and the configuration
\* registered under it do not change; registerConnector with a registered id does
\* not replace the connector.
C37_RegisteredIdKeepsItsConnector ==
  [][\A id \in Ids :
       (has(connectors, id) /\ has(connectors', id)) =>
          /\ get(connectors', id) = get(connectors, id)
          /\ objs'[get(connectors', id)].c = objs[get(connectors, id)].c]_vars

\* a connector instance keeps the configuration it was constructed with, and an
\* id is registered once at most
ConnectorKeepsItsConfig ==
  [][/\ \A i \in Insts : objs[i].used => objs'[i].used /\ objs'[i].c = objs[i].c
     /\ \A j, k \in 1..Len(connectors') :
          connectors'[j].id = connectors'[k].id => j = k]_vars

\* ---------------------------------------------------------------------------
\* The metrics of one connector over calls that succeed, fail and overlap
\* ---------------------------------------------------------------------------

MixedLatencies == 0..MaxLatency

\* connector: the metrics; inflight: the executeCall invocations that have counted
\* themselves in callsTotal and not ended; sum: the latencies of the successes;
\* plain: no call has failed and no two calls have overlapped so far
InitMixedCalls ==
  /\ InitManager
  /\ pf = [kind |-> "calls", connector |-> NewConnector(1), inflight |-> 0, sum |-> 0,
           plain |-> TRUE]

\* executeCall up to its first await: callsTotal++
CallStarts ==
  /\ pf.kind = "calls" /\ pf.connector.callsTotal < MaxCalls
  /\ pf' = [pf EXCEPT !.connector = recordAttempt(@), !.inflight = @ + 1,
                      !.plain = @ /\ pf.inflight = 0]
  /\ Frame

\* executeCall after its result has arrived
CallSucceeds(responseTime) ==
  /\ pf.kind = "calls" /\ pf.inflight > 0
  /\ pf' = [pf EXCEPT !.connector = recordSuccess(@, responseTime),
                      !.inflight = @ - 1, !.sum = @ + responseTime]
  /\ Frame

\* the catch block of executeCall
CallFails(responseTime) ==
  /\ pf.kind = "calls" /\ pf.inflight > 0
  /\ pf' = [pf EXCEPT !.connector = recordFailure(@, responseTime), !.inflight = @ - 1,
                      !.plain = FALSE]
  /\ Frame

NextMixedCalls ==
  \/ CallStarts
  \/ \E responseTime \in MixedLatencies : CallSucceeds(responseTime)
  \/ \E responseTime \in MixedLatencies : CallFails(responseTime)

SpecMixedCalls == InitMixedCalls /\ [][NextMixedCalls]_vars

\* C38: after any calls, failed and overlapping ones included, averageResponseTime
\* is the sum of the latencies of the successful calls divided by callsSuccessful.
C38_AverageIsMeanOfSuccesses ==
  (pf.kind = "calls" /\ pf.connector.callsSuccessful > 0) =>
    pf.connector.averageResponseTime = Fraction(pf.sum, pf.connector.callsSuccessful)

\* the counters add up, and the average is the mean as long as every call so far
\* has succeeded before the next one started
CountersAddUpAndPlainMeanHolds ==
  pf.kind = "calls" =>
    /\ pf.connector.callsTotal =
         pf.connector.callsSuccessful + pf.connector.callsFailed + pf.inflight
    /\ (pf.plain /\ pf.connector.callsSuccessful > 0) =>
         pf.connector.averageResponseTime = Fraction(pf.sum, pf.connector.callsSuccessful)

\* ---------------------------------------------------------------------------
\* Access control at registration and at transmission
\* ---------------------------------------------------------------------------

\* the data-time verdict that refused the call t names the access controls
refusedForAccessControls(t) ==
  /\ tasks[t].op = "execute" /\ tasks[t].inst # 0
  /\ tasks[t].cause = "compliance"
  /\ LET violations == dataVerdict[objs[tasks[t].inst].c][tasks[t].p].violations
     IN \E k \in 1..Len(violations) : violations[k].rule = "ACCESS_CONTROLS"

\* C39: an authentication type that passes the HIPAA access-control rule at
\* registration is accepted by the access-control check at transmission, so no
\* registered connector is refused a PHI payload because of its authentication
\* type.
C39_RegisteredAuthIsAcceptedForPHI ==
  \A t \in Slots : ~refusedForAccessControls(t)

\* the two rules agree on oauth2, bearer and certificate: a connector with one of
\* these types is never refused for its access controls
StrongAuthIsAcceptedForPHI ==
  \A t \in Slots :
    refusedForAccessControls(t) =>
      RegConfigs[objs[tasks[t].inst].c].auth \notin {"oauth2", "bearer", "certificate"}

\* ---------------------------------------------------------------------------
\* The choice of the synthetic transport, over endpoints with hosts, paths and
\* queries of every kind
\* ---------------------------------------------------------------------------
EndpointSchemes == {<<"h", "t", "t", "p", "s", ":", "/", "/">>, <<"h", "t", "t", "p", ":", "/", "/">>}

EndpointHosts ==
  {<<"x">>, <<"a", ".", "b">>, <<"m", "o", "c", "k", ".", "i", "o">>,
   <<"t", "e", "s", "t">>, <<"e", "x", "a", "m", "p", "l", "e", ".", "c", "o", "m">>}

EndpointPaths ==
  {<<>>, <<"/">>, <<"/", "a">>, <<"/", "m", "o", "c", "k">>, <<"/", "t", "e", "s", "t">>,
   <<"/", "v", "1", "/", "e", "x", "a", "m", "p", "l", "e", "s">>}

EndpointQueries == {<<>>, <<"?", "a">>, <<"?", "q", "=", "m", "o", "c", "k">>}

Endpoints ==
  {s \o h \o p \o q : s \in EndpointSchemes, h \in EndpointHosts,
                       p \in EndpointPaths, q \in EndpointQueries}

RECURSIVE upTo(_, _)
\* the longest prefix of s without a character of stops
upTo(s, stops) ==
  IF s = <<>> \/ Head(s) \in stops THEN <<>> ELSE <<Head(s)>> \o upTo(Tail(s), stops)

\* the host of an http(s) URL: what stands between "//" and the next "/", "?",
\* "#" or ":"
hostOf(endpoint) ==
  LET i == CHOOSE k \in 1..Len(endpoint) : endpoint[k] = ":"
  IN upTo(SubSeq(endpoint, i + 3, Len(endpoint)), {"/", "?", "#", ":"})

InitEndpoint ==
  /\ InitManager
  /\ pf \in {[kind |-> "endpoint", endpoint |-> e, applied |-> FALSE,
              testMocked |-> FALSE, callMocked |-> FALSE] : e \in Endpoints}

\* testConnection and executeCall of a connector with this endpoint choose their
\* transport (lines 391 and 444)
ChooseTransport ==
  /\ pf.kind = "endpoint" /\ ~pf.applied
  /\ pf' = [pf EXCEPT !.applied = TRUE,
                      !.testMocked = isMockEndpoint(pf.endpoint),
                      !.callMocked = isMockEndpoint(pf.endpoint)]
  /\ Frame

NextEndpoint == ChooseTransport

SpecEndpoint == InitEndpoint /\ [][NextEndpoint]_vars

\* C40: the synthetic transport is chosen by the host of the endpoint alone: with
\* a host that is not a test, mock or example host, testConnection and executeCall
\* contact the real endpoint whatever the path and the query are, and both decide
\* alike.
C40_SyntheticTransportByHostOnly ==
  (pf.kind = "endpoint" /\ pf.applied) =>
    /\ pf.testMocked = pf.callMocked
    /\ ~isMockEndpoint(hostOf(pf.endpoint)) => ~pf.testMocked /\ ~pf.callMocked

\* testConnection and executeCall decide alike, by the same test of the whole
\* endpoint string; an endpoint with a mock host is always served synthetically
SameTransportForTestAndCall ==
  (pf.kind = "endpoint" /\ pf.applied) =>
    /\ pf.testMocked = pf.callMocked
    /\ isMockEndpoint(hostOf(pf.endpoint)) => pf.testMocked /\ pf.callMocked
    /\ pf.testMocked <=> (\/ includes(pf.endpoint, S_mock)
                          \/ includes(pf.endpoint, S_test)
                          \/ includes(pf.endpoint, S_example))

=============================================================================
